---- MODULE Spec2Model ----
(***************************************************************************)
(* A state-machine model of ad2cpMAT (src/Sensors/ad2cpMAT.c): the framed  *)
(* record reader of main(), the configuration-string check, the ensemble   *)
(* decoder with its calibration selection and beam transform, the column   *)
(* accumulator and the final WriteMatlab drain.                            *)
(*                                                                         *)
(* A double is modelled as a decimal fixed-point pair <<m, e>> standing    *)
(* for m * 10^e; the matrices hold their entries in units of 10^-4.        *)
(* malloc is taken to succeed.                                             *)
(*                                                                         *)
(* Further units are modelled beside the run of main(), each under its own *)
(* specification and on inputs drawn from bounded sets: CalcCRC of         *)
(* src/rawxfer/crc.c (SpecCRC), the byte-level frame scan of main()        *)
(* (SpecScan), the bytes the Matlab* writers put in the container          *)
(* (SpecMat), the key search of main() in the bytes of buff (SpecKey), the *)
(* bytes the OutputData3_t overlay reads in buff (SpecOverlay), the        *)
(* receiver of src/rawxfer/rawrcv.c in both its modes (SpecRcv, and        *)
(* SpecRcvLive with the receiver's steps fair), the names it makes of its  *)
(* headers (SpecStrip), the sender of src/rawxfer/rawsend.c with a         *)
(* receiver of its bytes (SpecSend) and the record loop of                 *)
(* src/Sensors/sc2mat.c (SpecSc).                                          *)
(* SpecMany runs main() on a command line of UCHAR_MAX input paths.        *)
(***************************************************************************)
EXTENDS Integers, Sequences, FiniteSets, TLC

(* ---------------------------------------------------------------- bounds *)

\* The most ensembles a run of Spec decodes.
MaxEnsembles == 2

\* The most input paths on the command line.
MaxInputs == 2

\* The 16-bit words of the sample block the model carries per frame.
DataWords == 16

(* ------------------------------------------------------ program constants *)

\* int max_count = 1000: the columns every channel is allocated with.
max_count == 1000

\* Record ids dispatched by main().
ID_CONFIG == 160
ID_BURST == 21
ID_AVERAGE == 22
ID_ECHO == 28

\* An id main() has no branch for.
ID_OTHER == 23

\* The greatest value of an unsigned char, the type of main()'s ii.
UCHAR_MAX == 255

\* double beam_124[3][3], row-major, in units of 10^-4.
beam_124 == << 13564, -5056, -5056,   0, -11831, 11831,   0, 5518, 5518 >>

\* double beam_234[3][3], row-major, in units of 10^-4.
beam_234 == << 5056, -13564, 5056,   -11831, 0, 11831,   5518, 0, 5518 >>

\* double beam_ident[3][3], row-major, in units of 10^-4.
beam_ident == << 10000, 0, 0,   0, 10000, 0,   0, 0, 10000 >>

\* The matrix a value of the pointer T designates.
Mat(name) ==
  CASE name = "beam_124" -> beam_124
    [] name = "beam_234" -> beam_234
    [] OTHER -> beam_ident

\* A loop that stops one row early: the last row is never compared.
matrix_equal_rows2(A, B) ==
  IF \E ii \in 0..1, jj \in 0..2 : A[ii * 3 + jj + 1] # B[ii * 3 + jj + 1]
  THEN 1 ELSE 0

\* matrix_equal: 0 for equal, 1 for not equal, element by element.
matrix_equal(A, B) ==
  IF \E ii \in 0..2, jj \in 0..2 : A[ii * 3 + jj + 1] # B[ii * 3 + jj + 1]
  THEN 1 ELSE 0

(* ------------------------------------------------------------ fixed point *)

\* The double m * 10^e.
D(m, e) == << m, e >>

\* What a read of memory that was never written (or lies outside the
\* allocation) yields: no determinate value.
Indet == << 0, 999 >>

\* A 16-bit word read through a short *.
ToShort(w) == IF w >= 32768 THEN w - 65536 ELSE w

(* ------------------------------------------------------------- the frames *)

\* beams_cy_cells.numCells: the low 10 bits of the unioned field.
numCells(f) == f.u % 1024

\* beams_cy_cells.numBeams: the high 4 bits of the unioned field.
numBeams(f) == (f.u \div 4096) % 16

\* echo_cells: the unioned field read whole.
echo_cells(f) == f.u

\* The unioned field of a velocity ensemble of nb beams and nc cells
\* (coordSystem 0).
PackBeamsCells(nb, nc) == nc + 4096 * nb

\* The sample words of frame tag: word 1 is 0xFFFF (-1 as a short), the
\* others are small and differ from frame to frame.
SampleWords(tag) ==
  [w \in 0..(DataWords - 1) |-> IF w = 1 THEN 65535 ELSE 10 * tag + w]

NoMatrix == << 0, 0, 0, 0, 0, 0, 0, 0, 0 >>

\* A payload as main() sees it once fread has stored it in buff: the fields
\* of the OutputData3_t overlay, and what strstr/sscanf find in it (key: the
\* text GETXFAVG is present; n: the values sscanf converts; M: those values).
Frame(tag, id, u, nib, amp, corr, key, n, M) ==
  [tag |-> tag, id |-> id,
   ampIncluded |-> amp, corrIncluded |-> corr,
   pressure |-> 1000 * tag, temperature |-> 100 * tag - 500,
   heading |-> 1800, pitch |-> -150, roll |-> 25 * tag,
   u |-> u, cellSize |-> 500, blanking |-> 20,
   magnHxHyHz |-> << tag, -tag, 0 >>,
   tt |-> 1000 + tag, microSeconds100 |-> 5000,
   nib |-> nib, velocityScaling |-> -3, powerLevel |-> -2,
   data |-> SampleWords(tag),
   key |-> key, n |-> n, M |-> M]

NibA == << 1, 2, 4, 0 >>
NibB == << 2, 3, 4, 0 >>
NibOther == << 1, 2, 3, 0 >>
Nib4 == << 1, 2, 3, 4 >>

\* beam_124 with M33 changed: differs from it in the last element only.
NearA == [beam_124 EXCEPT ![9] = 5519]

\* The matrix of the spec's negative test: M11 = 9.9.
FarMatrix == << 99000, 10000, 20000, 30000, 40000, 50000, 60000, 70000, 80000 >>

\* The velocity and echo ensembles of the input alphabet.
EnsembleFrames ==
  { Frame(1, ID_BURST,   PackBeamsCells(3, 2), NibA,     TRUE,  TRUE,  FALSE, 0, NoMatrix),
    Frame(2, ID_AVERAGE, PackBeamsCells(3, 1), NibB,     TRUE,  FALSE, FALSE, 0, NoMatrix),
    Frame(3, ID_BURST,   PackBeamsCells(3, 2), NibOther, FALSE, FALSE, FALSE, 0, NoMatrix),
    Frame(4, ID_AVERAGE, PackBeamsCells(4, 2), Nib4,     FALSE, TRUE,  FALSE, 0, NoMatrix),
    Frame(5, ID_BURST,   PackBeamsCells(3, 0), NibA,     FALSE, FALSE, FALSE, 0, NoMatrix),
    Frame(6, ID_ECHO,    2,                    NibA,     FALSE, FALSE, FALSE, 0, NoMatrix),
    Frame(7, ID_AVERAGE, PackBeamsCells(4, 2), NibA,     FALSE, FALSE, FALSE, 0, NoMatrix),
    Frame(8, ID_BURST,   PackBeamsCells(2, 2), NibOther, FALSE, FALSE, FALSE, 0, NoMatrix) }

\* The configuration-string records of the input alphabet.
ConfigFrames ==
  { Frame(11, ID_CONFIG, 0, << 0, 0, 0, 0 >>, FALSE, FALSE, FALSE, 0, NoMatrix),
    Frame(12, ID_CONFIG, 0, << 0, 0, 0, 0 >>, TRUE,  FALSE, TRUE,  4, NoMatrix),
    Frame(13, ID_CONFIG, 0, << 0, 0, 0, 0 >>, TRUE,  FALSE, TRUE,  9, beam_124),
    Frame(14, ID_CONFIG, 0, << 0, 0, 0, 0 >>, TRUE,  FALSE, TRUE,  9, beam_234),
    Frame(15, ID_CONFIG, 0, << 0, 0, 0, 0 >>, TRUE,  FALSE, TRUE,  9, FarMatrix),
    Frame(16, ID_CONFIG, 0, << 0, 0, 0, 0 >>, TRUE,  FALSE, TRUE,  9, NearA) }

\* Records of an id main() does not interpret.
OtherFrames ==
  { Frame(10, ID_OTHER, 0, << 0, 0, 0, 0 >>, TRUE, TRUE, FALSE, 0, NoMatrix) }

AllFrames == EnsembleFrames \cup ConfigFrames \cup OtherFrames

FrameOf(tag) == CHOOSE f \in AllFrames : f.tag = tag

\* The stack buffer before the first fread: nothing determinate in it.
NoFrame == Frame(0, 0, 0, << 0, 0, 0, 0 >>, FALSE, FALSE, FALSE, 0, NoMatrix)

(* --------------------------------------------------------------- storage *)

\* A vector of max_count columns is held as the number n of its leading
\* columns that were stored or skipped so far, and the runs r of equal values
\* in them: << s, v >> says that the columns from s up to the next run hold
\* v.  A column that was skipped holds no determinate value.  A matrix is a
\* function from its allocated rows to such vectors.
NoColumns == [n |-> 0, r |-> << >>]

\* The run of vector a that column c < a.n lies in.
RunOf(a, c) ==
  CHOOSE k \in 1..Len(a.r) :
    a.r[k][1] <= c /\ (k = Len(a.r) \/ a.r[k + 1][1] > c)

\* A load a[c]: the value last stored there, if any.
Rd(a, c) == IF c >= 0 /\ c < a.n THEN a.r[RunOf(a, c)][2] ELSE Indet

\* A load a[r][c] of a matrix.
Rd2(a, r, c) == IF r \in DOMAIN a THEN Rd(a[r], c) ELSE Indet

\* Column a.n becomes the last column, holding v.
Push(a, v) ==
  [n |-> a.n + 1,
   r |-> IF a.r # << >> /\ a.r[Len(a.r)][2] = v THEN a.r ELSE Append(a.r, << a.n, v >>)]

\* The columns from a.n up to c - 1 are passed over.
Skip(a, c) ==
  [n |-> c,
   r |-> IF a.r # << >> /\ a.r[Len(a.r)][2] = Indet THEN a.r ELSE Append(a.r, << a.n, Indet >>)]

\* Column c < a.n gets the value v.
Set(a, c, v) ==
  LET k == RunOf(a, c)
      s == a.r[k][1]
      e == IF k = Len(a.r) THEN a.n - 1 ELSE a.r[k + 1][1] - 1
      w == a.r[k][2]
  IN  IF w = v THEN a
      ELSE [a EXCEPT !.r = SubSeq(a.r, 1, k - 1)
                           \o (IF s < c THEN << << s, w >> >> ELSE << >>)
                           \o << << c, v >> >>
                           \o (IF c < e THEN << << c + 1, w >> >> ELSE << >>)
                           \o SubSeq(a.r, k + 1, Len(a.r))]

\* The store a[c] = v.
Put(a, c, v) ==
  IF c = a.n THEN Push(a, v)
  ELSE IF c < a.n THEN Set(a, c, v)
  ELSE Push(Skip(a, c), v)

\* The columns of vector a that hold a stored value.
Written(a) == { c \in 0..(a.n - 1) : Rd(a, c) # Indet }

\* beamv[j], corr[j], amp[j]: the matrix of beam slot j.
Plane(a, j) ==
  [i \in { x[2] : x \in { y \in DOMAIN a : y[1] = j } } |-> a[<< j, i >>]]

\* The rows Darray/array allocate for the four beam slots.
VelRows(al, nc) == IF "vel" \in al THEN (0..3) \X (0..(nc - 1)) ELSE {}

\* The rows Darray allocates for echo.
EchoRows(al, nc) == IF "echo" \in al THEN 0..(nc - 1) ELSE {}

\* Row x of matrix a, empty when nothing was stored in it yet.
Row(a, x) == IF x \in DOMAIN a THEN a[x] ELSE NoColumns

(* ------------------------------------------------------------- the state *)

VARIABLES
  env,          \* the inputs of the run: "all" (most frames, few ensembles), "beams" (beam counts 2, 3, 4), "cap" (few frames, many ensembles) or "many" (few frames, many inputs)
  nargs,        \* argc - optind: the non-option arguments (inputs, then the output)
  pc,           \* where main() is
  ii,           \* the for loop's index, counted from 1 over the inputs
  fpOpen,       \* fp is an open input
  disk,         \* the output path on disk: "untouched" or "created" (made or cut to length 0)
  outOpen,      \* out is open
  container,    \* the arrays written through out, in order
  count, num_beams, num_cells, cellSize, blanking,
  alloc,        \* the channel groups that are allocated (non-NULL)
  pressure, temperature, heading, pitch, roll, magX, magY, magZ, t,
  beamv, corr, amp, echo, beamN, power,
  buff,         \* the payload buffer, as last filled
  ptr,          \* "uninit" or "buff"
  T,            \* "uninit" or the matrix it points to
  decoded,      \* history: the tags of the ensembles decoded, in arrival order
  closed,       \* history: the inputs that were opened, read and closed
  asserted,     \* history: the known matrices configuration strings have asserted
  ev,           \* history: the last step, what it printed to stderr, the column it wrote
  crcCall,      \* SpecCRC: the block handed to CalcCRC and what it returned
  rd,           \* SpecScan: the input bytes, the file position and the frames read
  mat,          \* SpecMat: the arrays handed to the writers and the bytes written
  cfg,          \* SpecKey, SpecOverlay: the bytes of buff and what was read from them
  rcv,          \* SpecRcv: a run of rawrcv
  snd,          \* SpecSend: a run of rawsend and the receiver of its bytes
  sc            \* SpecSc: a run of sc2mat's main() over the records of a stream

scalars == << pressure, temperature, heading, pitch, roll, magX, magY, magZ, t >>

samples == << beamv, corr, amp, echo, beamN, power >>

sizing == << num_beams, num_cells, cellSize, blanking, alloc >>

output == << disk, outOpen, container >>

\* The state of the units modelled beside main().
units == << crcCall, rd, mat, cfg, rcv, snd, sc >>

vars == << env, nargs, pc, ii, fpOpen, output, count, sizing, scalars, samples,
           buff, ptr, T, decoded, closed, asserted, ev, units >>

\* The inputs named on the command line: all arguments but the last.
nin == nargs - 1

\* The frames of the long runs: one velocity ensemble, one ignored record
\* and one configuration string of an unknown matrix.
CapFrames == { f \in AllFrames : f.tag \in {2, 10, 15} }

\* The frames of the runs that vary the beam count: a 3-beam ensemble of
\* unknown nibbles, a 4-beam one whose nibbles name beam_124, a 2-beam one,
\* an ignored record and a configuration string without the key.
BeamFrames == { f \in AllFrames : f.tag \in {3, 7, 8, 10, 11} }

\* Frame f may occur in the streams of this run.
Offered(f) ==
  IF env = "all" THEN f.tag \notin {7, 8}
  ELSE IF env = "beams" THEN f \in BeamFrames
  ELSE f \in CapFrames

\* The stream being read may end here: anywhere in the runs of few ensembles, before
\* the first ensemble or from the max_count-th on in the long ones.
Ends == env \in {"all", "beams", "many"} \/ count = 0 \/ count >= max_count

\* The ensembles this run decodes at most.
Limit == IF env = "cap" THEN max_count + 1 ELSE MaxEnsembles

\* buff once fread has stored payload f in it: the payload it holds, and the
\* two headconfig bits the overlay reads from it.
Filled(f) == [tag |-> f.tag, ampIncluded |-> f.ampIncluded, corrIncluded |-> f.corrIncluded]

Event(act, tag, msg, col, used) ==
  [act |-> act, tag |-> tag, msg |-> msg, col |-> col, used |-> used]

\* The state main() starts in: statics are zero, locals are uninitialised.
InitProgram ==
  /\ pc = "start"
  /\ ii = 0
  /\ fpOpen = FALSE
  /\ disk = "untouched"
  /\ outOpen = FALSE
  /\ container = << >>
  /\ count = 0
  /\ num_beams = 0
  /\ num_cells = 0
  /\ cellSize = D(0, 0)
  /\ blanking = D(0, 0)
  /\ alloc = {}
  /\ pressure = NoColumns /\ temperature = NoColumns /\ heading = NoColumns
  /\ pitch = NoColumns /\ roll = NoColumns /\ t = NoColumns
  /\ magX = NoColumns /\ magY = NoColumns /\ magZ = NoColumns
  /\ beamv = << >> /\ corr = << >> /\ amp = << >>
  /\ echo = << >> /\ beamN = NoColumns /\ power = NoColumns
  /\ buff = Filled(NoFrame)
  /\ ptr = "uninit"
  /\ T = "uninit"
  /\ decoded = << >>
  /\ closed = {}
  /\ asserted = {}
  /\ ev = Event("Init", 0, "none", -1, "none")

\* A unit that is not exercised.
Idle == [unit |-> "idle"]

NoUnits == crcCall = Idle /\ rd = Idle /\ mat = Idle /\ cfg = Idle /\ rcv = Idle /\ snd = Idle /\ sc = Idle

Init ==
  /\ env = "all"
  /\ nargs \in {0, 1, MaxInputs + 1}
  /\ InitProgram
  /\ NoUnits

(* ------------------------------------------------- arguments and the output *)

\* Too few arguments, or the output cannot be opened: usage message, return 1.
Usage ==
  /\ pc = "start"
  /\ pc' = "exit1"
  /\ ev' = Event("Usage", 0, "usage", -1, "none")
  /\ UNCHANGED << units, env, nargs, ii, fpOpen, output, count, sizing, scalars, samples,
                  buff, ptr, T, decoded, closed, asserted >>

\* fopen(argv[argc-1], "wb") succeeds: the output path now exists and is empty.
OpenOutput ==
  /\ pc = "start"
  /\ nargs >= 2
  /\ disk' = "created"
  /\ outOpen' = TRUE
  /\ ii' = 1
  /\ pc' = "open"
  /\ ev' = Event("OpenOutput", 0, "none", -1, "none")
  /\ UNCHANGED << units, env, nargs, fpOpen, container, count, sizing, scalars, samples,
                  buff, ptr, T, decoded, closed, asserted >>

(* ------------------------------------------------------------ the for loop *)

\* fopen(argv[ii], "rb") succeeds.
OpenInput ==
  /\ pc = "open"
  /\ fpOpen' = TRUE
  /\ pc' = "scan"
  /\ ev' = Event("OpenInput", 0, "none", -1, "none")
  /\ UNCHANGED << units, env, nargs, ii, output, count, sizing, scalars, samples,
                  buff, ptr, T, decoded, closed, asserted >>

\* fopen(argv[ii], "rb") fails: break out of the for loop.
OpenInputFail ==
  /\ pc = "open"
  /\ pc' = "drain"
  /\ ev' = Event("OpenInputFail", 0, "none", -1, "none")
  /\ UNCHANGED << units, env, nargs, ii, fpOpen, output, count, sizing, scalars, samples,
                  buff, ptr, T, decoded, closed, asserted >>

\* The index after ii++: ii is an unsigned char, after UCHAR_MAX comes 0, the
\* index of the program's own path in argv (optind being 1).
Incremented(i) == (i + 1) % (UCHAR_MAX + 1)

\* break out of the while loop, fclose(fp), ii++, and the for loop's test:
\* the next input is opened, or the loop ends.
CloseInput ==
  /\ fpOpen' = FALSE
  /\ closed' = closed \cup {ii}
  /\ ii' = Incremented(ii)
  /\ pc' = IF Incremented(ii) <= nin THEN "open" ELSE "drain"

\* The first fread finds the end of the stream.
EndOfInput ==
  /\ pc = "scan"
  /\ Ends
  /\ CloseInput
  /\ ev' = Event("EndOfInput", 0, "none", -1, "none")
  /\ UNCHANGED << units, env, nargs, output, count, sizing, scalars, samples,
                  buff, ptr, T, decoded, asserted >>

\* The stream ends inside the 8-byte prefix or inside the payload: fread has
\* stored the bytes it got at the start of buff (the bytes that hold the
\* headconfig bits among them), and the while loop is left.
ShortRead ==
  /\ pc = "scan"
  /\ Ends
  /\ \E a \in BOOLEAN, c \in BOOLEAN :
       buff' = [buff EXCEPT !.ampIncluded = a, !.corrIncluded = c]
  /\ CloseInput
  /\ ev' = Event("ShortRead", 0, "none", -1, "none")
  /\ UNCHANGED << units, env, nargs, output, count, sizing, scalars, samples,
                  ptr, T, decoded, asserted >>

(* ---------------------------------------------------------------- writer *)

\* architecture(): 0 on a little-endian host.
architecture == 0

\* A MATheader whose namlen does not count the NUL.
MATheader_nonul(mopt, mrows, ncols, name) ==
  [type |-> mopt, mrows |-> mrows, ncols |-> ncols, imagf |-> 0,
   namlen |-> Len(name), name |-> name]

\* The MATheader and the name of an array.
MATheader(mopt, mrows, ncols, name) ==
  [type |-> mopt, mrows |-> mrows, ncols |-> ncols, imagf |-> 0,
   namlen |-> Len(name) + 1, name |-> name]

\* A writer that applies the decode-time factor 0.001 again to what it writes.
MatlabDoubleVector_rescaled(a, n, name) ==
  [h |-> MATheader(architecture * 1000 + 0 * 100 + 0 * 10 + 0 * 1, n, 1, name),
   data |-> [i \in 1..n |-> << Rd(a, i - 1)[1], Rd(a, i - 1)[2] - 3 >>]]

\* MatlabDoubleVector(a, n, name, fp).
MatlabDoubleVector(a, n, name) ==
  [h |-> MATheader(architecture * 1000 + 0 * 100 + 0 * 10 + 0 * 1, n, 1, name),
   data |-> [i \in 1..n |-> Rd(a, i - 1)]]

\* MatlabVector(a, n, name, fp, unsign).
MatlabVector(a, n, name, unsign) ==
  [h |-> MATheader(architecture * 1000 + 0 * 100 + (3 + unsign) * 10 + 0 * 1, n, 1, name),
   data |-> [i \in 1..n |-> Rd(a, i - 1)]]

\* A MatlabMatrix whose loops run rows outer, columns inner.
MatlabMatrix_rowmajor(a, nr, nc, name) ==
  [h |-> MATheader(architecture * 1000 + 0 * 100 + 3 * 10 + 0 * 1, nr, nc, name),
   data |-> [k \in 1..(nr * nc) |-> Rd2(a, (k - 1) \div nc, (k - 1) % nc)]]

\* MatlabMatrix(a, nr, nc, name, fp): columns outer, rows inner.
MatlabMatrix(a, nr, nc, name) ==
  [h |-> MATheader(architecture * 1000 + 0 * 100 + 3 * 10 + 0 * 1, nr, nc, name),
   data |-> [k \in 1..(nr * nc) |-> Rd2(a, (k - 1) % nr, (k - 1) \div nr)]]

\* MatlabDoubleMatrix(a, nr, nc, name, fp): columns outer, rows inner.
MatlabDoubleMatrix(a, nr, nc, name) ==
  [h |-> MATheader(architecture * 1000 + 0 * 100 + 0 * 10 + 0 * 1, nr, nc, name),
   data |-> [k \in 1..(nr * nc) |-> Rd2(a, (k - 1) % nr, (k - 1) \div nr)]]

\* A writer whose velocity branch is not an else branch: an echo run gets the
\* velocity matrices too.
Arrays_noelse(ampIncluded, corrIncluded) ==
  ( IF "echo" \in alloc
    THEN << MatlabDoubleMatrix(echo, num_cells, count, "echo"),
            MatlabVector(beamN, count, "beam", 0),
            MatlabVector(power, count, "power", 0) >>
    ELSE << >> )
  \o ( ( IF num_beams = 4
           THEN << MatlabDoubleMatrix(Plane(beamv, 0), num_cells, count, "vel1"),
                   MatlabDoubleMatrix(Plane(beamv, 1), num_cells, count, "vel2"),
                   MatlabDoubleMatrix(Plane(beamv, 2), num_cells, count, "vel3"),
                   MatlabDoubleMatrix(Plane(beamv, 3), num_cells, count, "vel4") >>
           ELSE << MatlabDoubleMatrix(Plane(beamv, 0), num_cells, count, "velX"),
                   MatlabDoubleMatrix(Plane(beamv, 1), num_cells, count, "velY"),
                   MatlabDoubleMatrix(Plane(beamv, 2), num_cells, count, "velZ") >> )
         \o ( IF corrIncluded
              THEN << MatlabMatrix(Plane(corr, 0), num_cells, count, "corr1"),
                      MatlabMatrix(Plane(corr, 1), num_cells, count, "corr2"),
                      MatlabMatrix(Plane(corr, 2), num_cells, count, "corr3") >>
                   \o ( IF num_beams = 4
                        THEN << MatlabMatrix(Plane(corr, 3), num_cells, count, "corr4") >>
                        ELSE << >> )
              ELSE << >> )
         \o ( IF ampIncluded
              THEN << MatlabMatrix(Plane(amp, 0), num_cells, count, "amp1"),
                      MatlabMatrix(Plane(amp, 1), num_cells, count, "amp2"),
                      MatlabMatrix(Plane(amp, 2), num_cells, count, "amp3") >>
                   \o ( IF num_beams = 4
                        THEN << MatlabMatrix(Plane(amp, 3), num_cells, count, "amp4") >>
                        ELSE << >> )
              ELSE << >> ) )
  \o << MatlabDoubleVector(pressure, count, "pressure"),
        MatlabDoubleVector(temperature, count, "temperature"),
        MatlabDoubleVector(heading, count, "heading"),
        MatlabDoubleVector(pitch, count, "pitch"),
        MatlabDoubleVector(roll, count, "roll"),
        MatlabVector(magX, count, "magX", 0),
        MatlabVector(magY, count, "magY", 0),
        MatlabVector(magZ, count, "magZ", 0),
        MatlabDoubleVector(t, count, "time"),
        MatlabDoubleVector(Push(NoColumns, cellSize), 1, "cellSize"),
        MatlabDoubleVector(Push(NoColumns, blanking), 1, "blanking") >>

\* The arrays WriteMatlab writes, in the order it writes them.
Arrays(ampIncluded, corrIncluded) ==
  ( IF "echo" \in alloc
    THEN << MatlabDoubleMatrix(echo, num_cells, count, "echo"),
            MatlabVector(beamN, count, "beam", 0),
            MatlabVector(power, count, "power", 0) >>
    ELSE ( IF num_beams = 4
           THEN << MatlabDoubleMatrix(Plane(beamv, 0), num_cells, count, "vel1"),
                   MatlabDoubleMatrix(Plane(beamv, 1), num_cells, count, "vel2"),
                   MatlabDoubleMatrix(Plane(beamv, 2), num_cells, count, "vel3"),
                   MatlabDoubleMatrix(Plane(beamv, 3), num_cells, count, "vel4") >>
           ELSE << MatlabDoubleMatrix(Plane(beamv, 0), num_cells, count, "velX"),
                   MatlabDoubleMatrix(Plane(beamv, 1), num_cells, count, "velY"),
                   MatlabDoubleMatrix(Plane(beamv, 2), num_cells, count, "velZ") >> )
         \o ( IF corrIncluded
              THEN << MatlabMatrix(Plane(corr, 0), num_cells, count, "corr1"),
                      MatlabMatrix(Plane(corr, 1), num_cells, count, "corr2"),
                      MatlabMatrix(Plane(corr, 2), num_cells, count, "corr3") >>
                   \o ( IF num_beams = 4
                        THEN << MatlabMatrix(Plane(corr, 3), num_cells, count, "corr4") >>
                        ELSE << >> )
              ELSE << >> )
         \o ( IF ampIncluded
              THEN << MatlabMatrix(Plane(amp, 0), num_cells, count, "amp1"),
                      MatlabMatrix(Plane(amp, 1), num_cells, count, "amp2"),
                      MatlabMatrix(Plane(amp, 2), num_cells, count, "amp3") >>
                   \o ( IF num_beams = 4
                        THEN << MatlabMatrix(Plane(amp, 3), num_cells, count, "amp4") >>
                        ELSE << >> )
              ELSE << >> ) )
  \o << MatlabDoubleVector(pressure, count, "pressure"),
        MatlabDoubleVector(temperature, count, "temperature"),
        MatlabDoubleVector(heading, count, "heading"),
        MatlabDoubleVector(pitch, count, "pitch"),
        MatlabDoubleVector(roll, count, "roll"),
        MatlabVector(magX, count, "magX", 0),
        MatlabVector(magY, count, "magY", 0),
        MatlabVector(magZ, count, "magZ", 0),
        MatlabDoubleVector(t, count, "time"),
        MatlabDoubleVector(Push(NoColumns, cellSize), 1, "cellSize"),
        MatlabDoubleVector(Push(NoColumns, blanking), 1, "blanking") >>

(* --------------------------------------------------- configuration strings *)

\* What was accumulated is written out before the return 1.
Bail_flush ==
  /\ pc' = "exit1"
  /\ container' = Arrays(FALSE, FALSE)
  /\ UNCHANGED << disk, outOpen >>

\* "GETXFAVG does not match known beam matrix ... bailing out": return 1.
Bail ==
  /\ pc' = "exit1"
  /\ UNCHANGED output

\* A string that does not yield nine values is taken for an unknown matrix.
ConfigVerdict_strict(f) ==
  IF ~f.key THEN "none"
  ELSE IF f.n = 9 /\ matrix_equal(f.M, beam_124) = 0 THEN "beam_124"
  ELSE IF f.n = 9 /\ matrix_equal(f.M, beam_234) = 0 THEN "beam_234"
  ELSE "unknown"

\* What the branch id == 0xA0 finds: "none" (no key), "malformed" (n != 9),
\* the matrix the nine values equal, or "unknown".
ConfigVerdict(f) ==
  IF ~f.key THEN "none"
  ELSE IF f.n # 9 THEN "malformed"
  ELSE IF matrix_equal(f.M, beam_124) = 0 THEN "beam_124"
  ELSE IF matrix_equal(f.M, beam_234) = 0 THEN "beam_234"
  ELSE "unknown"

\* A frame of id 0xA0 is read whole and searched for GETXFAVG.
ConfigString(f) ==
  /\ pc = "scan"
  /\ Offered(f)
  /\ f.id = ID_CONFIG
  /\ buff' = Filled(f)
  /\ LET v == ConfigVerdict(f) IN
       /\ IF v = "unknown" THEN Bail ELSE UNCHANGED << pc, output >>
       /\ asserted' = IF v \in {"beam_124", "beam_234"} THEN asserted \cup {v} ELSE asserted
       /\ ev' = Event("ConfigString", f.tag,
                      CASE v = "unknown" -> "bail"
                        [] v = "malformed" -> "malformed"
                        [] OTHER -> "none",
                      -1, "none")
  /\ UNCHANGED << units, env, nargs, ii, fpOpen, count, sizing, scalars, samples,
                  ptr, T, decoded, closed >>

\* A frame of any other id is read whole and counted as an ensemble.
IgnoreFrame_counted(f) ==
  /\ pc = "scan"
  /\ Offered(f)
  /\ f.id \notin {ID_CONFIG, ID_ECHO, ID_BURST, ID_AVERAGE}
  /\ buff' = Filled(f)
  /\ count' = count + 1
  /\ ev' = Event("IgnoreFrame", f.tag, "none", -1, "none")
  /\ UNCHANGED << units, env, nargs, pc, ii, fpOpen, output, sizing, scalars, samples,
                  ptr, T, decoded, closed, asserted >>

\* A frame of any other id is read whole and not interpreted.
IgnoreFrame(f) ==
  /\ pc = "scan"
  /\ Offered(f)
  /\ f.id \notin {ID_CONFIG, ID_ECHO, ID_BURST, ID_AVERAGE}
  /\ buff' = Filled(f)
  /\ ev' = Event("IgnoreFrame", f.tag, "none", -1, "none")
  /\ UNCHANGED << units, env, nargs, pc, ii, fpOpen, output, count, sizing, scalars, samples,
                  ptr, T, decoded, closed, asserted >>

(* -------------------------------------------------------------- ensembles *)

\* The pointer T after the selection of lines 632-649: set from the nibbles,
\* to the identity when num_beams is 3, and otherwise left as it was.
SelectT(nib, nb, Told) ==
  IF nib[1] = 1 /\ nib[2] = 2 /\ nib[3] = 4 /\ nib[4] = 0 THEN "beam_124"
  ELSE IF nib[1] = 2 /\ nib[2] = 3 /\ nib[3] = 4 /\ nib[4] = 0 THEN "beam_234"
  ELSE IF nb = 3 THEN "beam_ident"
  ELSE Told

\* The selection prints "WARNING - unknown beam configuration".
SelectWarns(nib, nb) ==
  /\ ~(nib[1] = 1 /\ nib[2] = 2 /\ nib[3] = 4 /\ nib[4] = 0)
  /\ ~(nib[1] = 2 /\ nib[2] = 3 /\ nib[3] = 4 /\ nib[4] = 0)
  /\ nb = 3

\* hVel[k]: the k-th word of data, through a short *.
hVel(f, k) == ToShort(IF k \in DOMAIN f.data THEN f.data[k] ELSE 0)

\* hEcho[k]: the k-th word of data, through an unsigned short *.
hEcho(f, k) == IF k \in DOMAIN f.data THEN f.data[k] ELSE 0

\* The byte k of data read through an unsigned char * (little-endian words).
DataByte(f, k) ==
  LET w == IF (k \div 2) \in DOMAIN f.data THEN f.data[k \div 2] ELSE 0
  IN  IF k % 2 = 0 THEN w % 256 ELSE w \div 256

\* cAmp[k] = data[2 * numCells * numBeams + k].
cAmp(f, k) == DataByte(f, 2 * numCells(f) * numBeams(f) + k)

\* cCorr[k] = cAmp[numCells * numBeams + k].
cCorr(f, k) == DataByte(f, 3 * numCells(f) * numBeams(f) + k)

\* The transform without the factor scale.
Velocity_unscaled(f, Tn, j, i) ==
  IF numBeams(f) # 3 THEN D(hVel(f, j * numCells(f) + i), 0)
  ELSE IF Tn = "uninit" THEN Indet
  ELSE D(  Mat(Tn)[j * 3 + 1] * hVel(f, 0 * numCells(f) + i)
         + Mat(Tn)[j * 3 + 2] * hVel(f, 1 * numCells(f) + i)
         + Mat(Tn)[j * 3 + 3] * hVel(f, 2 * numCells(f) + i),
         -4)

\* The transform with the factor scale applied whatever the beam count.
Velocity_scaled(f, Tn, j, i) ==
  IF numBeams(f) # 3 THEN D(hVel(f, j * numCells(f) + i), f.velocityScaling)
  ELSE IF Tn = "uninit" THEN Indet
  ELSE D(  Mat(Tn)[j * 3 + 1] * hVel(f, 0 * numCells(f) + i)
         + Mat(Tn)[j * 3 + 2] * hVel(f, 1 * numCells(f) + i)
         + Mat(Tn)[j * 3 + 3] * hVel(f, 2 * numCells(f) + i),
         f.velocityScaling - 4)

\* The value stored in beamv[j][i][count]: the raw sample when the record
\* does not have 3 beams, else row j of the matrix T applied to the scaled
\* samples of cell i.
Velocity(f, Tn, j, i) ==
  IF numBeams(f) # 3 THEN D(hVel(f, j * numCells(f) + i), 0)
  ELSE IF Tn = "uninit" THEN Indet
  ELSE D(  Mat(Tn)[j * 3 + 1] * hVel(f, 0 * numCells(f) + i)
         + Mat(Tn)[j * 3 + 2] * hVel(f, 1 * numCells(f) + i)
         + Mat(Tn)[j * 3 + 3] * hVel(f, 2 * numCells(f) + i),
         f.velocityScaling - 4)

\* The cells (beam, cell) the loops of a velocity record run over.
VelCells(f) ==
  IF f.id \in {ID_BURST, ID_AVERAGE}
  THEN (0..(numBeams(f) - 1)) \X (0..(numCells(f) - 1))
  ELSE {}

\* The cells the loop of an echo record runs over, nc being num_cells.
EchoCells(f, nc) == IF f.id = ID_ECHO THEN 0..(nc - 1) ELSE {}

\* Every store of the record lands in allocated storage, and T points to a
\* matrix when one is applied: the behaviour of the record is defined.
Defined(f, nc, al, Tn, c) ==
  /\ c < max_count
  /\ \A x \in VelCells(f) : x \in VelRows(al, nc)
  /\ f.id = ID_ECHO => "echo" \in al
  /\ (numBeams(f) = 3 /\ VelCells(f) # {}) => Tn # "uninit"

\* Some store of the record lands outside the allocated storage.
Strays(f, nc, al, c) ==
  \/ c >= max_count
  \/ \E x \in VelCells(f) : x \notin VelRows(al, nc)
  \/ f.id = ID_ECHO /\ "echo" \notin al

\* a[c] = v, when column c exists.
Col(a, c, v) == IF c < max_count THEN Put(a, c, v) ELSE a

\* The stores of lines 608-688 for record f at column c, those that land in
\* the allocated storage taking effect; hit holds the columns of pressure a
\* stray store has landed on.
Accumulate(f, nc, al, Tn, c, hit) ==
  /\ LET p == Col(pressure, c, D(f.pressure, -3))
     IN  pressure' = IF hit = {} THEN p ELSE Set(p, CHOOSE k \in hit : TRUE, Indet)
  /\ temperature' = Col(temperature, c, D(f.temperature, -2))
  /\ heading' = Col(heading, c, D(f.heading, -2))
  /\ pitch' = Col(pitch, c, D(f.pitch, -2))
  /\ roll' = Col(roll, c, D(f.roll, -2))
  /\ magX' = Col(magX, c, D(f.magnHxHyHz[1], 0))
  /\ magY' = Col(magY, c, D(f.magnHxHyHz[2], 0))
  /\ magZ' = Col(magZ, c, D(f.magnHxHyHz[3], 0))
  /\ t' = Col(t, c, D(f.tt * 10000 + f.microSeconds100, -4))
  /\ LET rows == VelRows(al, nc)
         cells == { x \in VelCells(f) : x \in rows /\ c < max_count }
     IN  /\ beamv' = [x \in rows |->
                        IF x \in cells
                        THEN Put(Row(beamv, x), c, Velocity(f, Tn, x[1], x[2]))
                        ELSE Row(beamv, x)]
         /\ amp' = [x \in rows |->
                      IF x \in cells
                      THEN Put(Row(amp, x), c, D(cAmp(f, x[1] * numCells(f) + x[2]), 0))
                      ELSE Row(amp, x)]
         /\ corr' = [x \in rows |->
                       IF x \in cells
                       THEN Put(Row(corr, x), c, D(cCorr(f, x[1] * numCells(f) + x[2]), 0))
                       ELSE Row(corr, x)]
  /\ LET ok == f.id = ID_ECHO /\ "echo" \in al /\ c < max_count
         rows == EchoRows(al, nc)
     IN  /\ power' = IF ok THEN Put(power, c, D(f.powerLevel, 0)) ELSE power
         /\ beamN' = IF ok THEN Put(beamN, c, D(f.nib[1], 0)) ELSE beamN
         /\ echo' = [i \in rows |->
                       IF ok /\ i \in EchoCells(f, nc)
                       THEN Put(Row(echo, i), c, D(hEcho(f, i), -2))
                       ELSE Row(echo, i)]

\* The storage is sized at every ensemble, not only when count is 0.
DecodeEnsemble_resize(f) ==
  /\ pc = "scan"
  /\ Offered(f)
  /\ f.id \in {ID_ECHO, ID_BURST, ID_AVERAGE}
  /\ count < Limit
  /\ LET c == count
         first == TRUE
         nc == IF ~first THEN num_cells
               ELSE IF f.id = ID_ECHO THEN echo_cells(f) ELSE numCells(f)
         nb == IF ~first THEN num_beams
               ELSE IF f.id = ID_ECHO THEN 1 ELSE numBeams(f)
         al == IF ~first THEN alloc
               ELSE IF f.id = ID_ECHO THEN {"echo", "env"} ELSE {"vel", "env"}
         Tn == SelectT(f.nib, nb, T)
         msg == IF SelectWarns(f.nib, nb) THEN "unknownbeam" ELSE "none"
         used == IF f.id \in {ID_BURST, ID_AVERAGE} /\ numBeams(f) = 3 THEN Tn ELSE "none"
         goes_on ==
           /\ buff' = Filled(f)
           /\ ptr' = "buff"
           /\ cellSize' = D(f.cellSize, -3)
           /\ blanking' = D(f.blanking, -2)
           /\ num_cells' = nc
           /\ num_beams' = nb
           /\ alloc' = al
           /\ T' = Tn
           /\ count' = count + 1
           /\ decoded' = Append(decoded, f.tag)
           /\ ev' = Event("DecodeEnsemble", f.tag, msg, c, used)
     IN  \/ /\ Defined(f, nc, al, Tn, c)
            /\ pc' = pc
            /\ goes_on
            /\ Accumulate(f, nc, al, Tn, c, {})
         \/ /\ ~Defined(f, nc, al, Tn, c)
            /\ pc' = "crashed"
            /\ ev' = Event("DecodeEnsemble", f.tag, msg, c, used)
            /\ UNCHANGED << buff, ptr, count, sizing, scalars, samples, T, decoded >>
         \/ /\ ~Defined(f, nc, al, Tn, c)
            /\ pc' = "undefined"
            /\ goes_on
            /\ Accumulate(f, nc, al, Tn, c, {})
         \/ /\ Strays(f, nc, al, c)
            /\ pc' = "undefined"
            /\ goes_on
            /\ \E k \in Written(pressure) : k < c /\ Accumulate(f, nc, al, Tn, c, {k})
  /\ UNCHANGED << units, env, nargs, ii, fpOpen, output, closed, asserted >>

\* A frame of id 0x1c, 0x15 or 0x16 is read whole and decoded: the storage
\* is sized if count is 0, the header fields are stored at column count, T is
\* selected, the samples are stored, and count is incremented.  When a store
\* falls outside the allocated storage (or T is read uninitialised) the
\* behaviour is undefined: the run may die there, or go on in a state the
\* source no longer describes (pc "undefined"), the stray store lost or
\* landed on another cell.
DecodeEnsemble(f) ==
  /\ pc = "scan"
  /\ Offered(f)
  /\ f.id \in {ID_ECHO, ID_BURST, ID_AVERAGE}
  /\ count < Limit
  /\ LET c == count
         first == count = 0
         nc == IF ~first THEN num_cells
               ELSE IF f.id = ID_ECHO THEN echo_cells(f) ELSE numCells(f)
         nb == IF ~first THEN num_beams
               ELSE IF f.id = ID_ECHO THEN 1 ELSE numBeams(f)
         al == IF ~first THEN alloc
               ELSE IF f.id = ID_ECHO THEN {"echo", "env"} ELSE {"vel", "env"}
         Tn == SelectT(f.nib, nb, T)
         msg == IF SelectWarns(f.nib, nb) THEN "unknownbeam" ELSE "none"
         used == IF f.id \in {ID_BURST, ID_AVERAGE} /\ numBeams(f) = 3 THEN Tn ELSE "none"
         goes_on ==
           /\ buff' = Filled(f)
           /\ ptr' = "buff"
           /\ cellSize' = D(f.cellSize, -3)
           /\ blanking' = D(f.blanking, -2)
           /\ num_cells' = nc
           /\ num_beams' = nb
           /\ alloc' = al
           /\ T' = Tn
           /\ count' = count + 1
           /\ decoded' = Append(decoded, f.tag)
           /\ ev' = Event("DecodeEnsemble", f.tag, msg, c, used)
     IN  \/ /\ Defined(f, nc, al, Tn, c)
            /\ pc' = pc
            /\ goes_on
            /\ Accumulate(f, nc, al, Tn, c, {})
         \/ /\ ~Defined(f, nc, al, Tn, c)
            /\ pc' = "crashed"
            /\ ev' = Event("DecodeEnsemble", f.tag, msg, c, used)
            /\ UNCHANGED << buff, ptr, count, sizing, scalars, samples, T, decoded >>
         \/ /\ ~Defined(f, nc, al, Tn, c)
            /\ pc' = "undefined"
            /\ goes_on
            /\ Accumulate(f, nc, al, Tn, c, {})
         \/ /\ Strays(f, nc, al, c)
            /\ pc' = "undefined"
            /\ goes_on
            /\ \E k \in Written(pressure) : k < c /\ Accumulate(f, nc, al, Tn, c, {k})
  /\ UNCHANGED << units, env, nargs, ii, fpOpen, output, closed, asserted >>

(* ----------------------------------------------------------------- drain *)

\* The call moved into the while loop: the arrays are written while an
\* input is still open and being read.
WriteMatlab_midstream ==
  /\ pc \in {"scan", "drain"}
  /\ container' = container \o Arrays(buff.ampIncluded, buff.corrIncluded)
  /\ outOpen' = FALSE
  /\ pc' = "exit0"
  /\ ev' = Event("WriteMatlab", 0, "none", -1, "none")
  /\ UNCHANGED << units, env, nargs, ii, fpOpen, disk, count, sizing, scalars, samples,
                  buff, ptr, T, decoded, closed, asserted >>

\* WriteMatlab(argv[argc-1], ptr->headconfig.ampIncluded,
\* ptr->headconfig.corrIncluded): the two flags are read from the buffer as
\* it is now, every array is written, out is closed, exit(0).  With ptr never
\* set the read of the flags is undefined: the run dies, or gets any bits.
WriteMatlab ==
  /\ pc = "drain"
  /\ \/ /\ ptr = "buff"
        /\ container' = container \o Arrays(buff.ampIncluded, buff.corrIncluded)
        /\ outOpen' = FALSE
        /\ pc' = "exit0"
     \/ /\ ptr = "uninit"
        /\ \E a \in BOOLEAN, c \in BOOLEAN : container' = container \o Arrays(a, c)
        /\ outOpen' = FALSE
        /\ pc' = "exit0"
     \/ /\ ptr = "uninit"
        /\ pc' = "crashed"
        /\ UNCHANGED << container, outOpen >>
  /\ ev' = Event("WriteMatlab", 0, "none", -1, "none")
  /\ UNCHANGED << units, env, nargs, ii, fpOpen, disk, count, sizing, scalars, samples,
                  buff, ptr, T, decoded, closed, asserted >>

(* --------------------------------------------------------- specifications *)

Next ==
  \/ Usage
  \/ OpenOutput
  \/ OpenInput
  \/ OpenInputFail
  \/ EndOfInput
  \/ ShortRead
  \/ \E f \in ConfigFrames : ConfigString(f)
  \/ \E f \in OtherFrames : IgnoreFrame(f)
  \/ \E f \in EnsembleFrames : DecodeEnsemble(f)
  \/ WriteMatlab

\* Runs over the whole input alphabet, of at most MaxEnsembles ensembles.
Spec == Init /\ [][Next]_vars

InitCap ==
  /\ env = "cap"
  /\ nargs \in {0, 1, 2}
  /\ InitProgram
  /\ NoUnits

\* Runs long enough to decode more ensembles than max_count.
SpecCap == InitCap /\ [][Next]_vars

InitBeams ==
  /\ env = "beams"
  /\ nargs \in {0, 1, 2}
  /\ InitProgram
  /\ NoUnits

\* Runs whose ensembles have 2, 3 and 4 beams.
SpecBeams == InitBeams /\ [][Next]_vars

InitMany ==
  /\ env = "many"
  /\ nargs = UCHAR_MAX + 1
  /\ InitProgram
  /\ NoUnits

\* Runs on UCHAR_MAX input paths and the output path.
SpecMany == InitMany /\ [][Next]_vars

(* ------------------------------------------------ CalcCRC (rawxfer/crc.c) *)

\* The longest block of the bounded inputs of CalcCRC.
MaxBlock == 3

\* a ^ b on non-negative integers.
RECURSIVE Xor(_, _)
Xor(a, b) ==
  IF a = 0 THEN b
  ELSE IF b = 0 THEN a
  ELSE (((a % 2) + (b % 2)) % 2) + 2 * Xor(a \div 2, b \div 2)

\* One iteration of update()'s loop, with the CRC-16 (0x8005) polynomial.
Shift_8005(c) ==
  IF (c \div 32768) % 2 = 1 THEN Xor(c * 2, 32773) % 65536 ELSE (c * 2) % 65536

\* One iteration of update()'s loop on the unsigned short crc.
Shift(c) ==
  IF (c \div 32768) % 2 = 1 THEN Xor(c * 2, 4129) % 65536 ELSE (c * 2) % 65536

\* update(crc, data): data enters the high byte, then eight shifts.
update(crc, data) ==
  LET c0 == Xor(crc, data * 256) % 65536
  IN  Shift(Shift(Shift(Shift(Shift(Shift(Shift(Shift(c0))))))))

\* The loop of CalcCRC from index j (counted from 1) with c so far.  c is an
\* unsigned short: the test c >= 65536 never holds, it makes TLC evaluate c
\* at each iteration instead of nesting the calls of update.
RECURSIVE CalcLoop(_, _, _, _)
CalcLoop(block, n, j, c) ==
  IF j > n \/ c >= 65536 THEN c ELSE CalcLoop(block, n, j + 1, update(c, block[j]))

\* CalcCRC(block, n).
CalcCRC(block, n) == IF n <= 0 THEN 0 ELSE CalcLoop(block, n, 1, 0)

\* The bytes the bounded blocks are made of.
BlockBytes == {0, 1, 128, 255}

\* The ASCII digits 1..9, the customary check input of a CRC.
CheckBlock == << 49, 50, 51, 52, 53, 54, 55, 56, 57 >>

\* The blocks handed to CalcCRC.
Blocks ==
  UNION { [1..k -> BlockBytes] : k \in 0..MaxBlock } \cup { CheckBlock }

\* A caller is about to hand the first n bytes of a block to CalcCRC.
InitCRC ==
  /\ env = "unit"
  /\ nargs = 0
  /\ InitProgram
  /\ rd = Idle /\ mat = Idle /\ cfg = Idle /\ rcv = Idle /\ snd = Idle /\ sc = Idle
  /\ \E b \in Blocks, n \in 0..(MaxBlock + 6) :
       /\ n \in {0, Len(b)}
       /\ crcCall = [unit |-> "crc", block |-> b, n |-> n, c |-> -1, again |-> -1]

\* c = CalcCRC(block, n).
CallCalcCRC ==
  /\ crcCall.unit = "crc"
  /\ crcCall.c = -1
  /\ crcCall' = [crcCall EXCEPT !.c = CalcCRC(crcCall.block, crcCall.n)]
  /\ UNCHANGED << env, nargs, pc, ii, fpOpen, output, count, sizing, scalars, samples,
                  buff, ptr, T, decoded, closed, asserted, ev, rd, mat, cfg, rcv, snd, sc >>

\* The receiver's check: CalcCRC of the n bytes followed by c, high byte
\* first.
CallCalcCRCAgain ==
  /\ crcCall.unit = "crc"
  /\ crcCall.c # -1
  /\ crcCall.again = -1
  /\ LET sent == SubSeq(crcCall.block, 1, crcCall.n)
                   \o << crcCall.c \div 256, crcCall.c % 256 >>
     IN  crcCall' = [crcCall EXCEPT !.again = CalcCRC(sent, crcCall.n + 2)]
  /\ UNCHANGED << env, nargs, pc, ii, fpOpen, output, count, sizing, scalars, samples,
                  buff, ptr, T, decoded, closed, asserted, ev, rd, mat, cfg, rcv, snd, sc >>

NextCRC == CallCalcCRC \/ CallCalcCRCAgain

\* CalcCRC applied to the bounded blocks.
SpecCRC == InitCRC /\ [][NextCRC]_vars

(* --------------------------------------------- the frame scan, byte by byte *)

\* The most pieces an input of the scan is put together from.
MaxPieces == 3

\* The two synchronisation bytes.
SYNC1 == 165
SYNC2 == 10

\* The size of the prefix that follows them.
PrefixLen == 8

\* The pieces of the inputs: stray bytes, whole frames of an id main()
\* ignores (id, family, length, data checksum, header checksum, payload) and
\* frames cut short.
Pieces ==
  { << 0 >>,
    << SYNC1 >>,
    << SYNC2 >>,
    << SYNC1, SYNC2, ID_OTHER, 16, 0, 0, 1, 0, 0, 0 >>,
    << SYNC1, SYNC2, ID_OTHER, 16, 2, 0, 1, 0, 0, 0, SYNC1, SYNC2 >>,
    << SYNC1, SYNC2, ID_OTHER, 16, 3, 0, 0, 0, 0, 0, 7 >>,
    << SYNC1, SYNC2, ID_OTHER, 16, 1, 1 >> }

\* The inputs made of n pieces.
RECURSIVE Streams(_)
Streams(n) ==
  IF n = 0 THEN { << >> }
  ELSE { a \o b : a \in Streams(n - 1), b \in Pieces \cup { << >> } }

\* sz = *((unsigned short *) &(buff[2])): the two bytes in the host's order,
\* read from the data checksum's place.
Length_ckd(prefix) ==
  IF architecture = 0 THEN prefix[5] + 256 * prefix[6] ELSE 256 * prefix[5] + prefix[6]

\* sz = *((unsigned short *) &(buff[2])): the two bytes in the host's order.
Length(prefix) ==
  IF architecture = 0 THEN prefix[3] + 256 * prefix[4] ELSE 256 * prefix[3] + prefix[4]

\* The bytes fread can still deliver.
Left == Len(rd.bytes) - rd.pos

\* The k-th byte after the file position.
Byte(k) == rd.bytes[rd.pos + k]

\* The scan after a step: the file position, the step, the position its
\* iteration started at and the step before it.
Scanned(pos, step, frames, open) ==
  [rd EXCEPT !.pos = pos, !.last = step, !.prev = rd.last, !.from = rd.pos,
             !.frames = frames, !.open = open]

OnlyScan ==
  UNCHANGED << env, nargs, pc, ii, fpOpen, output, count, sizing, scalars, samples,
               buff, ptr, T, decoded, closed, asserted, ev, crcCall, mat, cfg, rcv, snd, sc >>

\* An input was opened and nothing read from it.
InitScan ==
  /\ env = "unit"
  /\ nargs = 0
  /\ InitProgram
  /\ crcCall = Idle /\ mat = Idle /\ cfg = Idle /\ rcv = Idle /\ snd = Idle /\ sc = Idle
  /\ \E b \in Streams(MaxPieces) :
       rd = [unit |-> "scan", bytes |-> b, pos |-> 0, open |-> TRUE, frames |-> << >>,
             last |-> "fopen", prev |-> "none", from |-> 0]

\* fread(&sync, 1, 1, fp) finds no byte: break.
ScanEof ==
  /\ rd.unit = "scan" /\ rd.open
  /\ Left = 0
  /\ rd' = Scanned(rd.pos, "ScanEof", rd.frames, FALSE)
  /\ OnlyScan

\* The byte is not 0xa5: continue.
ScanSkip ==
  /\ rd.unit = "scan" /\ rd.open
  /\ Left >= 1 /\ Byte(1) # SYNC1
  /\ rd' = Scanned(rd.pos + 1, "ScanSkip", rd.frames, TRUE)
  /\ OnlyScan

\* 0xa5 was the last byte of the input: break.
ScanEofInSync ==
  /\ rd.unit = "scan" /\ rd.open
  /\ Left = 1 /\ Byte(1) = SYNC1
  /\ rd' = Scanned(rd.pos + 1, "ScanEofInSync", rd.frames, FALSE)
  /\ OnlyScan

\* The byte after 0xa5 is not 0x0a and is looked at again as a first byte.
ScanResync_reexamine ==
  /\ rd.unit = "scan" /\ rd.open
  /\ Left >= 2 /\ Byte(1) = SYNC1 /\ Byte(2) # SYNC2
  /\ rd' = Scanned(rd.pos + 1, "ScanResync", rd.frames, TRUE)
  /\ OnlyScan

\* The byte after 0xa5 is not 0x0a: both are dropped, continue.
ScanResync ==
  /\ rd.unit = "scan" /\ rd.open
  /\ Left >= 2 /\ Byte(1) = SYNC1 /\ Byte(2) # SYNC2
  /\ rd' = Scanned(rd.pos + 2, "ScanResync", rd.frames, TRUE)
  /\ OnlyScan

\* Fewer than 8 bytes follow the sync pair: break.
ScanShortPrefix ==
  /\ rd.unit = "scan" /\ rd.open
  /\ Left >= 2 /\ Byte(1) = SYNC1 /\ Byte(2) = SYNC2
  /\ Left < 2 + PrefixLen
  /\ rd' = Scanned(Len(rd.bytes), "ScanShortPrefix", rd.frames, FALSE)
  /\ OnlyScan

\* Fewer than sz bytes follow the prefix: break.
ScanShortPayload ==
  /\ rd.unit = "scan" /\ rd.open
  /\ Left >= 2 + PrefixLen /\ Byte(1) = SYNC1 /\ Byte(2) = SYNC2
  /\ LET prefix == SubSeq(rd.bytes, rd.pos + 3, rd.pos + 2 + PrefixLen)
     IN  /\ Left - 2 - PrefixLen < Length(prefix)
         /\ rd' = Scanned(Len(rd.bytes), "ScanShortPayload", rd.frames, FALSE)
  /\ OnlyScan

\* The sync pair, the prefix and sz bytes of payload are read; the frame, of
\* an id without a branch, is passed over and the loop goes on.
ScanFrame ==
  /\ rd.unit = "scan" /\ rd.open
  /\ Left >= 2 + PrefixLen /\ Byte(1) = SYNC1 /\ Byte(2) = SYNC2
  /\ LET prefix == SubSeq(rd.bytes, rd.pos + 3, rd.pos + 2 + PrefixLen)
         sz == Length(prefix)
         p1 == rd.pos + 1 + 1 + PrefixLen
         f == [start |-> rd.pos, id |-> prefix[1], fam |-> prefix[2], sz |-> sz,
               ckd |-> prefix[5] + prefix[6] * 256, ckh |-> prefix[7] + prefix[8] * 256,
               payload |-> SubSeq(rd.bytes, p1 + 1, p1 + sz), next |-> p1 + sz]
     IN  /\ Left - 2 - PrefixLen >= sz
         /\ rd' = Scanned(p1 + sz, "ScanFrame", Append(rd.frames, f), TRUE)
  /\ OnlyScan

NextScan ==
  \/ ScanEof
  \/ ScanSkip
  \/ ScanEofInSync
  \/ ScanResync
  \/ ScanShortPrefix
  \/ ScanShortPayload
  \/ ScanFrame

\* The scan of lines 514-538 over the bounded inputs.
SpecScan == InitScan /\ [][NextScan]_vars

(* ------------------------------------------- the bytes of the container *)

\* The most arrays written to one container.
MaxArrays == 2

\* The most rows and columns of an array written.
MaxDim == 2

\* The characters of the names the arrays are written under.
Chars(name) ==
  CASE name = "a" -> << 97 >>
    [] name = "vel" -> << 118, 101, 108 >>
    [] OTHER -> << >>

\* The bytes of an object of several bytes, given from the least significant
\* one, as they lie in memory on this host.
HostOrder(lsbFirst) ==
  IF architecture = 0 THEN lsbFirst
  ELSE [k \in 1..Len(lsbFirst) |-> lsbFirst[Len(lsbFirst) + 1 - k]]

\* The bytes of a non-negative int.
IntBytes(v) ==
  HostOrder(<< v % 256, (v \div 256) % 256, (v \div 65536) % 256,
               (v \div 16777216) % 256 >>)

\* The bytes of a short.
ShortBytes(x) ==
  HostOrder(<< ((x + 65536) % 65536) % 256, ((x + 65536) % 65536) \div 256 >>)

\* floor(log2(n)) for n >= 1.
RECURSIVE Log2(_)
Log2(n) == IF n < 2 THEN 0 ELSE 1 + Log2(n \div 2)

\* The number of halves in the double v, an integer << m, 0 >> or an odd
\* number of halves << 5 * k, -1 >>.
Halves(v) == IF v[2] = 0 THEN 2 * v[1] ELSE v[1] \div 5

\* The bytes of the IEEE 754 binary64 that holds v: sign, 11 bits of biased
\* exponent, and the fraction, whose leading 8 bits are all that a value of
\* fewer than 512 halves needs.
DoubleBytes(v) ==
  LET h == Halves(v)
      mag == IF h < 0 THEN -h ELSE h
      sign == IF h < 0 THEN 1 ELSE 0
      e2 == Log2(mag)
      biased == e2 - 1 + 1023
      frac8 == ((mag - 2 ^ e2) * 256) \div (2 ^ e2)
  IN  IF h = 0 THEN HostOrder(<< 0, 0, 0, 0, 0, 0, 0, 0 >>)
      ELSE HostOrder(<< 0, 0, 0, 0, 0, (frac8 % 16) * 16,
                        (biased % 16) * 16 + frac8 \div 16,
                        sign * 128 + biased \div 16 >>)

\* The concatenation of the sequences of seq.
RECURSIVE Flatten(_)
Flatten(seq) == IF seq = << >> THEN << >> ELSE Head(seq) \o Flatten(Tail(seq))

\* What the fwrite calls of a Matlab* function put in the file for the array
\* x: the MATheader, namlen bytes of the name with its NUL, the elements.
Fwrite(x) ==
  IntBytes(x.h.type) \o IntBytes(x.h.mrows) \o IntBytes(x.h.ncols)
    \o IntBytes(x.h.imagf) \o IntBytes(x.h.namlen)
    \o SubSeq(Chars(x.h.name) \o << 0 >>, 1, x.h.namlen)
    \o Flatten([k \in DOMAIN x.data |->
                  IF (x.h.type \div 10) % 10 = 0
                  THEN DoubleBytes(x.data[k]) ELSE ShortBytes(x.data[k][1])])

\* The doubles and the shorts the arrays of the inputs are filled with.
DoubleSamples == << D(1, 0), D(-5, -1), D(25, -1), D(0, 0), D(-3, 0) >>
ShortSamples == << D(1, 0), D(-1, 0), D(300, 0), D(-32768, 0), D(0, 0) >>

\* The element at row j, column i of the input number seed.
Sample(vals, seed, j, i) == vals[((seed + MaxDim * j + i) % Len(vals)) + 1]

\* A caller's vector a[0 .. n - 1] and matrix a[0 .. nr - 1][0 .. nc - 1].
VectorOf(vals, seed, n) ==
  [n |-> n, r |-> [k \in 1..n |-> << k - 1, Sample(vals, seed, 0, k - 1) >>]]

MatrixOf(vals, seed, nr, nc) ==
  [j \in 0..(nr - 1) |->
     [n |-> nc, r |-> [k \in 1..nc |-> << k - 1, Sample(vals, seed, j, k - 1) >>]]]

\* The container after the array x, which function fn made of the input
\* number seed of nr rows and nc columns, was written.
Wrote(fn, seed, nr, nc, name, unsign, x) ==
  [mat EXCEPT !.bytes = mat.bytes \o Fwrite(x),
              !.calls = Append(mat.calls,
                               [fn |-> fn, seed |-> seed, nr |-> nr, nc |-> nc,
                                name |-> name, unsign |-> unsign,
                                start |-> Len(mat.bytes)])]

OnlyMat ==
  UNCHANGED << env, nargs, pc, ii, fpOpen, output, count, sizing, scalars, samples,
               buff, ptr, T, decoded, closed, asserted, ev, crcCall, rd, cfg, rcv, snd, sc >>

ArrayNames == {"a", "vel"}

\* The output was opened and nothing written to it.
InitMat ==
  /\ env = "unit"
  /\ nargs = 0
  /\ InitProgram
  /\ crcCall = Idle /\ rd = Idle /\ cfg = Idle /\ rcv = Idle /\ snd = Idle /\ sc = Idle
  /\ mat = [unit |-> "mat", bytes |-> << >>, calls |-> << >>]

CallMatlabDoubleVector ==
  /\ mat.unit = "mat" /\ Len(mat.calls) < MaxArrays
  /\ \E n \in 0..MaxDim, seed \in 0..1 :
       LET name == IF seed = 0 THEN "a" ELSE "vel"
       IN  mat' = Wrote("MatlabDoubleVector", seed, n, 1, name, 0,
                        MatlabDoubleVector(VectorOf(DoubleSamples, seed, n), n, name))
  /\ OnlyMat

CallMatlabVector ==
  /\ mat.unit = "mat" /\ Len(mat.calls) < MaxArrays
  /\ \E n \in 0..MaxDim, seed \in 0..1, unsign \in 0..1 :
       LET name == IF seed = 0 THEN "a" ELSE "vel"
       IN  mat' = Wrote("MatlabVector", seed, n, 1, name, unsign,
                        MatlabVector(VectorOf(ShortSamples, seed, n), n, name, unsign))
  /\ OnlyMat

CallMatlabMatrix ==
  /\ mat.unit = "mat" /\ Len(mat.calls) < MaxArrays
  /\ \E nr \in 1..MaxDim, nc \in 1..MaxDim, name \in ArrayNames :
       mat' = Wrote("MatlabMatrix", 1, nr, nc, name, 0,
                    MatlabMatrix(MatrixOf(ShortSamples, 1, nr, nc), nr, nc, name))
  /\ OnlyMat

CallMatlabDoubleMatrix ==
  /\ mat.unit = "mat" /\ Len(mat.calls) < MaxArrays
  /\ \E nr \in 1..MaxDim, nc \in 1..MaxDim, name \in ArrayNames :
       mat' = Wrote("MatlabDoubleMatrix", 0, nr, nc, name, 0,
                    MatlabDoubleMatrix(MatrixOf(DoubleSamples, 0, nr, nc), nr, nc, name))
  /\ OnlyMat

NextMat ==
  \/ CallMatlabDoubleVector
  \/ CallMatlabVector
  \/ CallMatlabMatrix
  \/ CallMatlabDoubleMatrix

\* The Matlab* functions called in any order on the bounded inputs.
SpecMat == InitMat /\ [][NextMat]_vars

(* ------------------------------------- the key search in the bytes of buff *)

\* The most records of an input of the key search.
MaxRecords == 2

\* "GETXFAVG".
Key == <<
    71, 69, 84, 88, 70, 65, 86, 71 >>

\* The format "GETXFAVG,ROWS=3,COLS=3,M11=%lf,M12=%lf, ... ,M33=%lf": the text
\* before each of its nine %lf.
Format ==
  << <<
       71, 69, 84, 88, 70, 65, 86, 71, 44, 82, 79, 87, 83, 61, 51, 44, 67,
       79, 76, 83, 61, 51, 44, 77, 49, 49, 61 >>,
     <<
       44, 77, 49, 50, 61 >>,
     <<
       44, 77, 49, 51, 61 >>,
     <<
       44, 77, 50, 49, 61 >>,
     <<
       44, 77, 50, 50, 61 >>,
     <<
       44, 77, 50, 51, 61 >>,
     <<
       44, 77, 51, 49, 61 >>,
     <<
       44, 77, 51, 50, 61 >>,
     <<
       44, 77, 51, 51, 61 >> >>

\* "ID,SN=1\r\n": no key, no NUL.
TextPlain == <<
    73, 68, 44, 83, 78, 61, 49, 13, 10 >>

\* "ID\0": no key, NUL-terminated.
TextPlainNul == <<
    73, 68, 0 >>

\* "ID,SN=1234\r\n", the matrix beam_124 as source line 428 prints it, "\r\n\0".
TextKnown == <<
    73, 68, 44, 83, 78, 61, 49, 50, 51, 52, 13, 10, 71, 69, 84, 88, 70, 65,
    86, 71, 44, 82, 79, 87, 83, 61, 51, 44, 67, 79, 76, 83, 61, 51, 44, 77,
    49, 49, 61, 49, 46, 51, 53, 54, 52, 44, 77, 49, 50, 61, 45, 48, 46, 53,
    48, 53, 54, 44, 77, 49, 51, 61, 45, 48, 46, 53, 48, 53, 54, 44, 77, 50,
    49, 61, 48, 46, 48, 48, 48, 48, 44, 77, 50, 50, 61, 45, 49, 46, 49, 56,
    51, 49, 44, 77, 50, 51, 61, 49, 46, 49, 56, 51, 49, 44, 77, 51, 49, 61,
    48, 46, 48, 48, 48, 48, 44, 77, 51, 50, 61, 48, 46, 53, 53, 49, 56, 44,
    77, 51, 51, 61, 48, 46, 53, 53, 49, 56, 13, 10, 0 >>

\* "ID,SN=1234\r\n", a matrix with M11=9.9, "\r\n\0".
TextFar == <<
    73, 68, 44, 83, 78, 61, 49, 50, 51, 52, 13, 10, 71, 69, 84, 88, 70, 65,
    86, 71, 44, 82, 79, 87, 83, 61, 51, 44, 67, 79, 76, 83, 61, 51, 44, 77,
    49, 49, 61, 57, 46, 57, 44, 77, 49, 50, 61, 49, 46, 48, 44, 77, 49, 51,
    61, 50, 46, 48, 44, 77, 50, 49, 61, 51, 46, 48, 44, 77, 50, 50, 61, 52,
    46, 48, 44, 77, 50, 51, 61, 53, 46, 48, 44, 77, 51, 49, 61, 54, 46, 48,
    44, 77, 51, 50, 61, 55, 46, 48, 44, 77, 51, 51, 61, 56, 46, 48, 13, 10, 0 >>

\* "ID,SN=1234\r\nGETXFAVG,ROWS=2\r\n\0": the key, and text that departs from
\* the format before the first value.
TextMalformed == <<
    73, 68, 44, 83, 78, 61, 49, 50, 51, 52, 13, 10, 71, 69, 84, 88, 70, 65,
    86, 71, 44, 82, 79, 87, 83, 61, 50, 13, 10, 0 >>

\* The key and two values, cut in the second one, no NUL.
TextCut == <<
    71, 69, 84, 88, 70, 65, 86, 71, 44, 82, 79, 87, 83, 61, 51, 44, 67, 79,
    76, 83, 61, 51, 44, 77, 49, 49, 61, 49, 46, 51, 53, 54, 52, 44, 77, 49,
    50, 61, 45, 48, 46, 53 >>

\* The records of the inputs: what the prefix gives as id, and the payload.
KeyRecords ==
  { [id |-> ID_CONFIG, payload |-> TextPlain],
    [id |-> ID_CONFIG, payload |-> TextPlainNul],
    [id |-> ID_CONFIG, payload |-> TextKnown],
    [id |-> ID_OTHER,  payload |-> TextFar],
    [id |-> ID_CONFIG, payload |-> TextMalformed],
    [id |-> ID_CONFIG, payload |-> TextCut] }

\* The inputs of n records.
RECURSIVE KeyStreams(_)
KeyStreams(n) ==
  IF n = 0 THEN { << >> }
  ELSE KeyStreams(n - 1) \cup { Append(a, r) : a \in KeyStreams(n - 1), r \in KeyRecords }

\* buff after fread(&buff, 1, sz, fp): the payload over its first sz bytes,
\* the bytes stored before it behind them.  b holds the bytes of buff that
\* were ever stored; the bytes behind them are those of the stack.
Stored(b, payload) ==
  payload \o SubSeq(b, Len(payload) + 1, Len(b))

\* The byte at place p of buff (from 1), -1 for a byte never stored.
At(b, p) == IF p <= Len(b) THEN b[p] ELSE -1

\* The place of the first NUL among the stored bytes, Len(b) + 1 without one.
Nul(b) ==
  IF \E p \in 1..Len(b) : b[p] = 0
  THEN CHOOSE p \in 1..Len(b) : b[p] = 0 /\ \A q \in 1..(p - 1) : b[q] # 0
  ELSE Len(b) + 1

\* The places where needle stands in b[1..last].
Occurs(b, needle, last) ==
  { p \in 1..(last - Len(needle) + 1) : SubSeq(b, p, p + Len(needle) - 1) = needle }

\* strstr(buff, "GETXFAVG"): the place of the first occurrence in the string
\* that ends at the first NUL, 0 for NULL, and -1 when the stored bytes hold
\* neither the key nor a NUL, so that the search runs on into the bytes of
\* the stack.
strstr(b, needle) ==
  LET hits == Occurs(b, needle, Nul(b) - 1)
  IN  IF hits # {} THEN CHOOSE p \in hits : \A q \in hits : p <= q
      ELSE IF Nul(b) <= Len(b) THEN 0
      ELSE -1

\* isspace and isdigit of the C locale.
IsSpace(c) == c \in {9, 10, 11, 12, 13, 32}
IsDigit(c) == c \in 48..57

\* The first place from p on that holds no white space.
RECURSIVE SkipSpace(_, _)
SkipSpace(b, p) == IF IsSpace(At(b, p)) THEN SkipSpace(b, p + 1) ELSE p

\* The digits and the point of a decimal numeral from place p on: its digits
\* as an integer, the digits behind the point, whether there was a digit,
\* the place behind it, and whether it runs on into bytes never stored.
RECURSIVE Digits(_, _, _, _, _, _)
Digits(b, p, m, nd, dot, any) ==
  LET c == At(b, p)
  IN  IF m < 0 THEN [m |-> m, nd |-> nd, any |-> any, end |-> p, off |-> FALSE]
      ELSE IF c = -1 THEN [m |-> m, nd |-> nd, any |-> any, end |-> p, off |-> TRUE]
      ELSE IF IsDigit(c)
           THEN Digits(b, p + 1, 10 * m + (c - 48), IF dot THEN nd + 1 ELSE nd, dot, TRUE)
      ELSE IF c = 46 /\ ~dot THEN Digits(b, p + 1, m, nd, TRUE, any)
      ELSE [m |-> m, nd |-> nd, any |-> any, end |-> p, off |-> FALSE]

\* %lf on a decimal numeral: white space, a sign, digits with a point.
Number(b, p) ==
  LET q == SkipSpace(b, p)
      c == At(b, q)
      d == IF c \in {43, 45} THEN Digits(b, q + 1, 0, 0, FALSE, FALSE)
           ELSE Digits(b, q, 0, 0, FALSE, FALSE)
  IN  IF c = -1 THEN [m |-> 0, nd |-> 0, any |-> FALSE, end |-> q, off |-> TRUE]
      ELSE IF c = 45 THEN [d EXCEPT !.m = 0 - d.m]
      ELSE d

\* What sscanf returns when it stops at place p with the values vals
\* converted: their number, EOF (-1) at the end of the string before the
\* first of them.
Stopped(b, p, vals) ==
  [n |-> IF vals = << >> /\ At(b, p) = 0 THEN -1 ELSE Len(vals),
   vals |-> vals, off |-> FALSE, partial |-> FALSE]

\* sscanf(str, "GETXFAVG,ROWS=3, ... ,M33=%lf", ...) from place p of buff and
\* the k-th %lf of the format: the count it returns and the values it stores;
\* off when it needs a byte that was never stored, partial when the numeral
\* it was then in had a digit.
RECURSIVE sscanf(_, _, _, _)
sscanf(b, p, k, vals) ==
  IF k > Len(Format)
  THEN [n |-> Len(vals), vals |-> vals, off |-> FALSE, partial |-> FALSE]
  ELSE LET lit == Format[k]
           bad == { j \in 1..Len(lit) : At(b, p + j - 1) # lit[j] }
           j1 == CHOOSE j \in bad : \A i \in bad : j <= i
           r == Number(b, p + Len(lit))
       IN  IF bad # {}
           THEN IF At(b, p + j1 - 1) = -1
                THEN [n |-> Len(vals), vals |-> vals, off |-> TRUE, partial |-> FALSE]
                ELSE Stopped(b, p + j1 - 1, vals)
           ELSE IF r.off
           THEN [n |-> Len(vals), vals |-> vals, off |-> TRUE, partial |-> r.any]
           ELSE IF ~r.any THEN Stopped(b, r.end, vals)
           ELSE sscanf(b, r.end, k + 1, Append(vals, << r.m, r.nd >>))

\* m * 10^n.
RECURSIVE Scale10(_, _)
Scale10(m, n) == IF n = 0 THEN m ELSE Scale10(10 * m, n - 1)

\* The converted value in units of 10^-4; 1000000, which no entry of a known
\* matrix is, when it is not a whole number of them.
ToUnits(v) ==
  IF v[2] <= 4 THEN Scale10(v[1], 4 - v[2])
  ELSE IF v[1] % Scale10(1, v[2] - 4) = 0 THEN v[1] \div Scale10(1, v[2] - 4)
  ELSE 1000000

\* The first values of matrix A are the ones converted.
Begins(A, vals) == \A i \in 1..Len(vals) : ToUnits(vals[i]) = A[i]

\* What the branch id == 0xA0 can find in buff: as ConfigVerdict, from the
\* bytes.  A search or a conversion that runs on into the bytes of the stack
\* finds whatever those bytes make of it.
KeyVerdicts(b) ==
  LET str == strstr(b, Key)
      r == sscanf(b, str, 1, << >>)
      T_tmp == [i \in 1..9 |-> ToUnits(r.vals[i])]
  IN  IF str = 0 THEN { "none" }
      ELSE IF str = -1 THEN { "none", "malformed", "beam_124", "beam_234", "unknown" }
      ELSE IF ~r.off
      THEN IF r.n # 9 THEN { "malformed" }
           ELSE IF matrix_equal(T_tmp, beam_124) = 0 THEN { "beam_124" }
           ELSE IF matrix_equal(T_tmp, beam_234) = 0 THEN { "beam_234" }
           ELSE { "unknown" }
      ELSE { "unknown" }
           \cup (IF Len(r.vals) = 8 /\ r.partial THEN {} ELSE { "malformed" })
           \cup (IF Begins(beam_124, r.vals) THEN { "beam_124" } ELSE {})
           \cup (IF Begins(beam_234, r.vals) THEN { "beam_234" } ELSE {})

OnlyKey ==
  UNCHANGED << env, nargs, pc, ii, fpOpen, output, count, sizing, scalars, samples,
               buff, ptr, T, decoded, closed, asserted, ev, crcCall, rd, mat, rcv, snd, sc >>

\* An input was opened; buff holds the bytes of the stack.
InitKey ==
  /\ env = "unit"
  /\ nargs = 0
  /\ InitProgram
  /\ crcCall = Idle /\ rd = Idle /\ mat = Idle /\ rcv = Idle /\ snd = Idle /\ sc = Idle
  /\ \E todo \in KeyStreams(MaxRecords) :
       cfg = [unit |-> "key", buf |-> << >>, todo |-> todo, log |-> << >>, pc |-> "scan"]

\* The search and the conversion in b end inside the bytes that were stored.
Decided(b) ==
  /\ strstr(b, Key) # -1
  /\ strstr(b, Key) # 0 => ~sscanf(b, strstr(b, Key), 1, << >>).off

\* What the log keeps of a record: its id, whether its own payload holds the
\* key, whether a NUL ends its payload, whether the bytes stored in buff
\* decide what the branch finds, and what it found.
Logged(r, v, b) ==
  [id |-> r.id, own |-> Occurs(r.payload, Key, Len(r.payload)) # {},
   nul |-> Nul(r.payload) <= Len(r.payload), det |-> Decided(b), v |-> v]

\* A record of id 0xA0 is read into buff and searched for the key.
KeyConfig ==
  /\ cfg.unit = "key" /\ cfg.pc = "scan" /\ cfg.todo # << >>
  /\ LET r == Head(cfg.todo)
         b == Stored(cfg.buf, r.payload)
     IN  /\ r.id = ID_CONFIG
         /\ \E v \in KeyVerdicts(b) :
              cfg' = [cfg EXCEPT !.buf = b, !.todo = Tail(cfg.todo),
                                 !.log = Append(cfg.log, Logged(r, v, b)),
                                 !.pc = IF v = "unknown" THEN "exit1" ELSE "scan"]
  /\ OnlyKey

\* A record of an id without a branch is read into buff.
KeyOther ==
  /\ cfg.unit = "key" /\ cfg.pc = "scan" /\ cfg.todo # << >>
  /\ LET r == Head(cfg.todo)
     IN  /\ r.id \notin {ID_CONFIG, ID_ECHO, ID_BURST, ID_AVERAGE}
         /\ cfg' = [cfg EXCEPT !.buf = Stored(cfg.buf, r.payload), !.todo = Tail(cfg.todo),
                               !.log = Append(cfg.log,
                                              Logged(r, "skipped", Stored(cfg.buf, r.payload)))]
  /\ OnlyKey

NextKey ==
  \/ KeyConfig
  \/ KeyOther

\* The reads of line 537 and the branch of lines 540-563 over the bytes of
\* buff.
SpecKey == InitKey /\ [][NextKey]_vars

(* ------------------------------ the overlay of OutputData3_t on buff *)

\* The most records of an input of the overlay.
MaxPayloads == 3

\* offsetof(OutputData3_t, data): the bytes of the fixed header.
DataOffset == 76

\* The bytes of the header fields main() reads: year (offset 8) to
\* powerLevel (offset 59).
FieldBytes == 8..59

\* The byte the union of beams_cy_cells and echo_cells starts at.
CountsOffset == 32

\* The records of the inputs: their id, the length sz of the prefix (the
\* bytes fread stores in buff) and the counts their own header holds.
\* A burst of 3 beams and 1 cell with velocity, amplitude and correlation; an
\* average of 3 beams and 1 cell with velocity only; a burst whose length is
\* 0; an echo record of 2 cells; a record of another id.
Payloads ==
  { [tag |-> 1, id |-> ID_BURST,   sz |-> DataOffset + 4 * 3, u |-> PackBeamsCells(3, 1)],
    [tag |-> 2, id |-> ID_AVERAGE, sz |-> DataOffset + 2 * 3, u |-> PackBeamsCells(3, 1)],
    [tag |-> 3, id |-> ID_BURST,   sz |-> 0,                  u |-> PackBeamsCells(3, 1)],
    [tag |-> 4, id |-> ID_ECHO,    sz |-> DataOffset + 2 * 2, u |-> 2],
    [tag |-> 5, id |-> ID_OTHER,   sz |-> DataOffset + 14,    u |-> PackBeamsCells(3, 2)] }

\* The record whose bytes buff holds at offset p after the records of the
\* sequence todo were stored in it one after the other, each from offset 0:
\* the last one longer than p, 0 when the byte is still the stack's.
Owner(done, p) ==
  LET ks == { k \in 1..Len(done) : done[k].sz > p }
  IN  IF ks = {} THEN 0 ELSE CHOOSE k \in ks : \A j \in ks : j <= k

\* The bytes the branch of an ensemble reads through ptr: the header fields,
\* and from ptr->data the samples: 2 + 1 + 1 bytes for each beam and cell of
\* a velocity record, with the counts the overlay finds at CountsOffset, and
\* 2 bytes for each of num_cells cells of an echo record.
BytesRead(id, u, nc) ==
  FieldBytes \cup
    (IF id = ID_ECHO THEN DataOffset..(DataOffset + 2 * nc - 1)
     ELSE LET n == (u \div 4096) * (u % 1024)
          IN  DataOffset..(DataOffset + 4 * n - 1))

OnlyOverlay ==
  UNCHANGED << env, nargs, pc, ii, fpOpen, output, count, sizing, scalars, samples,
               buff, ptr, T, decoded, closed, asserted, ev, crcCall, rd, mat, rcv,
               snd, sc >>

\* An input was opened; buff holds the bytes of the stack.
InitOverlay ==
  /\ env = "unit"
  /\ nargs = 0
  /\ InitProgram
  /\ crcCall = Idle /\ rd = Idle /\ mat = Idle /\ rcv = Idle /\ snd = Idle /\ sc = Idle
  /\ cfg = [unit |-> "overlay", done |-> << >>, count |-> 0, num_cells |-> 0,
            last |-> [act |-> "fopen"], pc |-> "scan"]

\* A record of an id without a branch is read into buff.
OverlayOther ==
  /\ cfg.unit = "overlay" /\ cfg.pc = "scan" /\ Len(cfg.done) < MaxPayloads
  /\ \E r \in Payloads :
       /\ r.id = ID_OTHER
       /\ cfg' = [cfg EXCEPT !.done = Append(cfg.done, r), !.last = [act |-> "other"]]
  /\ OnlyOverlay

\* An ensemble is read into buff and decoded through the overlay, its counts
\* being those of the record whose bytes lie at CountsOffset.
OverlayEnsemble ==
  /\ cfg.unit = "overlay" /\ cfg.pc = "scan" /\ Len(cfg.done) < MaxPayloads
  /\ \E r \in Payloads :
       /\ r.id \in {ID_ECHO, ID_BURST, ID_AVERAGE}
       /\ LET done == Append(cfg.done, r)
              k == Len(done)
              h == Owner(done, CountsOffset)
          IN  /\ h # 0
              /\ LET u == done[h].u
                     nc == IF cfg.count > 0 THEN cfg.num_cells
                           ELSE IF r.id = ID_ECHO THEN u ELSE u % 1024
                     from == { Owner(done, p) : p \in BytesRead(r.id, u, nc) }
                 IN  cfg' = [cfg EXCEPT
                               !.done = done, !.count = cfg.count + 1, !.num_cells = nc,
                               !.last = [act |-> "ensemble", k |-> k, tag |-> r.tag,
                                         sz |-> r.sz, from |-> from]]
  /\ OnlyOverlay

\* An ensemble is read into buff while the bytes at CountsOffset are still
\* the bytes of the stack: the counts are indeterminate, and so is what the
\* loops over them do.
OverlayIndeterminate ==
  /\ cfg.unit = "overlay" /\ cfg.pc = "scan" /\ Len(cfg.done) < MaxPayloads
  /\ \E r \in Payloads, how \in {"crashed", "undefined"} :
       /\ r.id \in {ID_ECHO, ID_BURST, ID_AVERAGE}
       /\ Owner(Append(cfg.done, r), CountsOffset) = 0
       /\ cfg' = [cfg EXCEPT !.done = Append(cfg.done, r), !.pc = how,
                             !.last = [act |-> "ensemble", k |-> Len(cfg.done) + 1,
                                       tag |-> r.tag, sz |-> r.sz, from |-> {0}]]
  /\ OnlyOverlay

NextOverlay ==
  \/ OverlayOther
  \/ OverlayEnsemble
  \/ OverlayIndeterminate

\* The reads of main()'s ensemble branch in buff, over the bounded inputs.
SpecOverlay == InitOverlay /\ [][NextOverlay]_vars

(* ------------------------------------------- rawrcv (rawxfer/rawrcv.c) *)

\* The most transfers of a run of rawrcv.
MaxTransfers == 3

\* The file bodies of the transfers.
Contents == { << >>, << 1 >>, << 2 >>, << 1, 2 >> }

\* The sizes a header announces.
Sizes == {0, 1, 2}

\* md5_compute(fname, md5_out): the 32 lower-case hex digits of the MD5 of
\* the file's bytes.
md5_compute(content) ==
  CASE content = << >>     -> "d41d8cd98f00b204e9800998ecf8427e"
    [] content = << 1 >>    -> "55a54008ad1ba589aa210d2629c1df41"
    [] content = << 2 >>    -> "9e688c58a5487b8eaf69c9e1005ad0bf"
    [] content = << 1, 2 >> -> "0cb988d042a7f28dd5fe2b55b3f5ac7a"

\* The digests a sender announces: those of the bodies, and the first of
\* them in upper case.
Digests ==
  { md5_compute(c) : c \in Contents } \cup { "D41D8CD98F00B204E9800998ECF8427E" }

\* isalnum of the C locale.
IsAlnum(c) == c \in 48..57 \/ c \in 65..90 \/ c \in 97..122

\* The C string at the start of the bytes f: the bytes before the first NUL.
CString(f) == SubSeq(f, 1, Nul(f) - 1)

\* A test that lets the path separator through as well.
Kept_separator(c) == IsAlnum(c) \/ c \in {46, 95, 43, 47}

\* isalnum(*f) || *f == '.' || *f == '_' || *f == '+'.  A byte above 127 is
\* a negative char: not alphanumeric in the C locale.
Kept(c) == IsAlnum(c) \/ c \in {46, 95, 43}

\* The while loop of strip: f is the place read, i the number of characters
\* written to the start of the same array o; at the NUL, o[i] = 0 ends the
\* string after them.
RECURSIVE stripLoop(_, _, _)
stripLoop(o, f, i) ==
  IF f > Len(o) \/ o[f] = 0 THEN SubSeq(o, 1, i)
  ELSE IF Kept(o[f]) THEN stripLoop([o EXCEPT ![i + 1] = o[f]], f + 1, i + 1)
  ELSE stripLoop(o, f + 1, i)

\* strip(f): the string left at the start of f.
strip(f) == stripLoop(f, 1, 0)

\* The name fields of the headers (bytes 4..19): "a", "b", "/a", "/" and an
\* empty one.
NameFields == { << 97 >>, << 98 >>, << 47, 97 >>, << 47 >>, << >> }

\* fname = &header[4]; fname[15] = 0; strip(fname).
fname(field) == strip(SubSeq(field, 1, IF Len(field) < 15 THEN Len(field) ELSE 15))

\* A compare that takes the digest before the sizes.
Reply_digestFirst(mode, size, nread, size2, md5_in, md5_out) ==
  IF md5_in # md5_out THEN "E2"
  ELSE IF size # nread THEN "E0"
  ELSE IF mode = "single" /\ size # size2 THEN "E1"
  ELSE "OK"

\* The reply printed after a transfer (lines 193-208 and 343-358).
Reply(mode, size, nread, size2, md5_in, md5_out) ==
  IF size # nread THEN "E0"
  ELSE IF mode = "single" /\ size # size2 THEN "E1"
  ELSE IF md5_in # md5_out THEN "E2"
  ELSE "OK"

\* No transfer yet.
NoTransfer == [reply |-> "none"]

OnlyRcv ==
  UNCHANGED << env, nargs, pc, ii, fpOpen, output, count, sizing, scalars, samples,
               buff, ptr, T, decoded, closed, asserted, ev, crcCall, rd, mat, cfg, snd, sc >>

\* rawrcv is started: as rawrcvb with argc arguments, the first of them the
\* number of files, or under its own name with a path, or a path, a size and
\* a digest.
InitRcv ==
  /\ env = "unit"
  /\ nargs = 0
  /\ InitProgram
  /\ crcCall = Idle /\ rd = Idle /\ mat = Idle /\ cfg = Idle /\ snd = Idle /\ sc = Idle
  /\ \E mode \in {"single", "batch"}, argc \in 1..5, num \in 0..MaxTransfers,
        size2 \in Sizes, md5_arg \in Digests :
       /\ mode = "batch" => (argc <= 3 /\ size2 = 0 /\ md5_arg = md5_compute(<< >>))
       /\ mode = "single" => num = 0
       /\ argc < 4 => (size2 = 0 /\ md5_arg = md5_compute(<< >>))
       /\ rcv = [unit |-> "rcv", mode |-> mode, argc |-> argc,
                 num_to_receive |-> num, size2 |-> size2, md5_arg |-> md5_arg,
                 pc |-> "start", tty |-> "orig", out |-> << >>,
                 i |-> 0, prevName |-> << >>, fname |-> << >>, size |-> 0,
                 md5_in |-> "", received |-> {}, done |-> 0, last |-> NoTransfer]

\* batch(): argc != 2 or num_to_receive < 1: "NO!", return 1.
BatchUsage ==
  /\ rcv.unit = "rcv" /\ rcv.mode = "batch" /\ rcv.pc = "start"
  /\ rcv.argc # 2 \/ rcv.num_to_receive < 1
  /\ rcv' = [rcv EXCEPT !.out = Append(rcv.out, "NO!"), !.pc = "exit1"]
  /\ OnlyRcv

\* batch(): the terminal is set raw, "READY!" is printed and the for loop is
\* entered.
BatchReady ==
  /\ rcv.unit = "rcv" /\ rcv.mode = "batch" /\ rcv.pc = "start"
  /\ rcv.argc = 2 /\ rcv.num_to_receive >= 1
  /\ rcv' = [rcv EXCEPT !.tty = "raw", !.out = Append(rcv.out, "READY!"),
                        !.pc = "header"]
  /\ OnlyRcv

\* A wait for the header that select's timeout does not end.
BatchHeaderShort_waits ==
  /\ rcv.unit = "rcv" /\ rcv.mode = "batch" /\ rcv.pc = "header"
  /\ rcv' = rcv
  /\ OnlyRcv

\* Fewer than 52 header bytes arrive before select times out or read fails:
\* return 1.
BatchHeaderShort ==
  /\ rcv.unit = "rcv" /\ rcv.mode = "batch" /\ rcv.pc = "header"
  /\ rcv' = [rcv EXCEPT !.pc = "exit1"]
  /\ OnlyRcv

\* A header arrives whose name strips to the empty string: return 1.
BatchBadName ==
  /\ rcv.unit = "rcv" /\ rcv.mode = "batch" /\ rcv.pc = "header"
  /\ rcv.done < MaxTransfers
  /\ \E field \in NameFields :
       /\ fname(field) = << >>
       /\ rcv' = [rcv EXCEPT !.fname = << >>, !.pc = "exit1"]
  /\ OnlyRcv

\* A header arrives, the size, the name and the digest are taken from it and
\* fopen(fname, "wb") succeeds.
BatchOpen ==
  /\ rcv.unit = "rcv" /\ rcv.mode = "batch" /\ rcv.pc = "header"
  /\ rcv.done < MaxTransfers
  /\ \E field \in NameFields, size \in Sizes, md5_in \in Digests :
       /\ fname(field) # << >>
       /\ rcv' = [rcv EXCEPT !.fname = fname(field), !.size = size,
                             !.md5_in = md5_in, !.pc = "body"]
  /\ OnlyRcv

\* A header arrives and fopen(fname, "wb") returns NULL: fp is not tested,
\* and fputc(c, fp) or fclose(fp) is undefined: the run dies, or goes on in a
\* state the source no longer describes.
BatchOpenFail ==
  /\ rcv.unit = "rcv" /\ rcv.mode = "batch" /\ rcv.pc = "header"
  /\ rcv.done < MaxTransfers
  /\ \E field \in NameFields, how \in {"crashed", "undefined"} :
       /\ fname(field) # << >>
       /\ rcv' = [rcv EXCEPT !.fname = fname(field), !.pc = how]
  /\ OnlyRcv

\* The body is received until size bytes have arrived or the line stalls,
\* the file is closed and its digest computed, the reply is printed, the file
\* is counted, and the for loop's test is made: the next header is awaited,
\* or the terminal is restored and batch returns 0.
BatchTransfer ==
  /\ rcv.unit = "rcv" /\ rcv.mode = "batch" /\ rcv.pc = "body"
  /\ \E data \in Contents :
       /\ Len(data) <= rcv.size
       /\ LET nread == Len(data)
              md5_out == md5_compute(data)
              reply == Reply("batch", rcv.size, nread, 0, rcv.md5_in, md5_out)
              counted == reply = "OK" /\ (rcv.prevName = << >> \/ rcv.prevName # rcv.fname)
              i1 == IF counted THEN rcv.i + 1 ELSE rcv.i
          IN  rcv' = [rcv EXCEPT
                        !.out = Append(rcv.out, reply),
                        !.i = i1,
                        !.prevName = IF reply = "OK" THEN rcv.fname ELSE rcv.prevName,
                        !.received = IF reply = "OK" THEN rcv.received \cup {rcv.fname}
                                     ELSE rcv.received,
                        !.done = rcv.done + 1,
                        !.last = [reply |-> reply, size |-> rcv.size, nread |-> nread,
                                  size2 |-> 0, md5_in |-> rcv.md5_in, data |-> data,
                                  fname |-> rcv.fname, counted |-> counted],
                        !.tty = IF i1 < rcv.num_to_receive THEN rcv.tty ELSE "orig",
                        !.pc = IF i1 < rcv.num_to_receive THEN "header" ELSE "exit0"]
  /\ OnlyRcv

\* main(): a wrong number of arguments, or argv[1] cannot be opened for
\* writing: "NO!", return 1.
MainUsage ==
  /\ rcv.unit = "rcv" /\ rcv.mode = "single" /\ rcv.pc = "start"
  /\ rcv' = [rcv EXCEPT !.out = Append(rcv.out, "NO!"), !.pc = "exit1"]
  /\ OnlyRcv

\* main(): the output is open, the terminal is set raw and "READY!" printed.
MainReady ==
  /\ rcv.unit = "rcv" /\ rcv.mode = "single" /\ rcv.pc = "start"
  /\ rcv.argc \in {2, 4}
  /\ rcv' = [rcv EXCEPT !.tty = "raw", !.out = Append(rcv.out, "READY!"),
                        !.fname = << 97 >>, !.pc = "header"]
  /\ OnlyRcv

\* Fewer than four size bytes arrive: return 1.
MainSizeShort ==
  /\ rcv.unit = "rcv" /\ rcv.mode = "single" /\ rcv.pc = "header"
  /\ rcv' = [rcv EXCEPT !.pc = "exit1"]
  /\ OnlyRcv

\* The four size bytes arrive.
MainSize ==
  /\ rcv.unit = "rcv" /\ rcv.mode = "single" /\ rcv.pc = "header"
  /\ \E size \in Sizes :
       rcv' = [rcv EXCEPT !.size = size, !.md5_in = rcv.md5_arg, !.pc = "body"]
  /\ OnlyRcv

\* The body is received until size bytes have arrived or the line stalls,
\* the file is closed; with a size and a digest given the digest is computed
\* and the reply printed; the terminal is restored; return nread < size.
MainTransfer ==
  /\ rcv.unit = "rcv" /\ rcv.mode = "single" /\ rcv.pc = "body"
  /\ \E data \in Contents :
       /\ Len(data) <= rcv.size
       /\ LET nread == Len(data)
              md5_out == md5_compute(data)
              reply == IF rcv.argc = 4
                       THEN Reply("single", rcv.size, nread, rcv.size2, rcv.md5_in, md5_out)
                       ELSE "none"
          IN  rcv' = [rcv EXCEPT
                        !.out = IF rcv.argc = 4 THEN Append(rcv.out, reply) ELSE rcv.out,
                        !.done = rcv.done + 1,
                        !.last = [reply |-> reply, size |-> rcv.size, nread |-> nread,
                                  size2 |-> rcv.size2, md5_in |-> rcv.md5_in, data |-> data,
                                  fname |-> rcv.fname, counted |-> FALSE],
                        !.tty = "orig",
                        !.pc = IF nread < rcv.size THEN "exit1" ELSE "exit0"]
  /\ OnlyRcv

NextRcv ==
  \/ BatchUsage
  \/ BatchReady
  \/ BatchHeaderShort
  \/ BatchBadName
  \/ BatchOpen
  \/ BatchOpenFail
  \/ BatchTransfer
  \/ MainUsage
  \/ MainReady
  \/ MainSizeShort
  \/ MainSize
  \/ MainTransfer

\* The runs of rawrcv, single and batch, of at most MaxTransfers transfers.
SpecRcv == InitRcv /\ [][NextRcv]_vars

\* The same runs, with the receiver taking its next step: every select
\* returns, with a byte or after its 20 seconds, and every read returns.
SpecRcvLive == InitRcv /\ [][NextRcv]_vars /\ WF_vars(NextRcv)

(* ------------------------------------ the file names of a batch header *)

\* The most bytes of the short name fields.
MaxName == 3

\* The bytes of the name fields: 'a', '.', '/', '+', a byte above 127, NUL.
NameBytes == {97, 46, 47, 43, 200, 0}

\* The name fields of n bytes.
RECURSIVE Fields(_)
Fields(n) ==
  IF n = 0 THEN { << >> }
  ELSE Fields(n - 1) \cup { Append(f, c) : f \in Fields(n - 1), c \in NameBytes }

\* Name fields that fill the 16 bytes of the header: "../../etc/passwd",
\* sixteen times 'a', and fifteen times '/' before an 'a'.
LongNames ==
  { << 46, 46, 47, 46, 46, 47, 101, 116, 99, 47, 112, 97, 115, 115, 119, 100 >>,
    [k \in 1..16 |-> 97],
    [k \in 1..16 |-> IF k = 16 THEN 97 ELSE 47] }

\* A header is awaited by batch().
InitStrip ==
  /\ env = "unit"
  /\ nargs = 0
  /\ InitProgram
  /\ crcCall = Idle /\ rd = Idle /\ mat = Idle /\ cfg = Idle /\ snd = Idle /\ sc = Idle
  /\ rcv = [unit |-> "strip", pc |-> "header", field |-> << >>, fname |-> << >>,
            opened |-> {}]

\* A header has arrived: fname = &header[4]; fname[15] = 0; strip(fname); an
\* empty name returns 1, another one is opened for writing.
StripName ==
  /\ rcv.unit = "strip" /\ rcv.pc = "header"
  /\ \E field \in Fields(MaxName) \cup LongNames :
       LET name == fname(field)
       IN  rcv' = [rcv EXCEPT !.field = field, !.fname = name,
                              !.opened = IF name = << >> THEN {} ELSE {name},
                              !.pc = IF name = << >> THEN "exit1" ELSE "body"]
  /\ OnlyRcv

\* The names batch() makes of the name fields of its headers.
SpecStrip == InitStrip /\ [][StripName]_vars

(* ------------------------- rawsend (rawxfer/rawsend.c) and its receiver *)

\* The values a 16-bit part of a file length takes.
Parts == {0, 1, 255, 256, 32768, 65535}

\* A file length, st_size, is held as three 16-bit parts from the most
\* significant one: << w2, w1, w0 >> stands for w2 * 2^32 + w1 * 2^16 + w0.
Lengths == { << w2, w1, w0 >> : w2 \in {0, 1}, w1 \in Parts, w0 \in Parts }

\* size = statbuf.st_size: the conversion to unsigned int keeps the low 32
\* bits, held as << w1, w0 >>.
ToUnsigned(st) == << st[2], st[3] >>

\* sizebuf = (unsigned char *) &size: the four bytes of the object, as they
\* lie in memory on this host.
ObjectBytes(size) ==
  HostOrder(<< size[2] % 256, size[2] \div 256, size[1] % 256, size[1] \div 256 >>)

\* The unsigned int whose object bytes are b.
ObjectOf(b) ==
  LET l == HostOrder(b) IN << l[4] * 256 + l[3], l[2] * 256 + l[1] >>

\* rawsend: swapbuf[3] = sizebuf[0]; ... swapbuf[0] = sizebuf[3].
swapbuf(size) == [k \in 1..4 |-> ObjectBytes(size)[5 - k]]

\* A receiver that stores the four bytes in the order of their arrival.
SizeOf_arrival(bytes) == ObjectOf(bytes)

\* rawrcv: sizebuf[3] = swapbuf[0]; ... sizebuf[0] = swapbuf[3] (in batch
\* mode from header[0..3]).
SizeOf(bytes) == ObjectOf([k \in 1..4 |-> bytes[5 - k]])

\* a < b for two lengths.
Fewer(a, b) ==
  \/ a[1] < b[1]
  \/ a[1] = b[1] /\ a[2] < b[2]
  \/ a[1] = b[1] /\ a[2] = b[2] /\ a[3] < b[3]

OnlySend ==
  UNCHANGED << env, nargs, pc, ii, fpOpen, output, count, sizing, scalars, samples,
               buff, ptr, T, decoded, closed, asserted, ev, crcCall, rd, mat, cfg,
               rcv, sc >>

\* rawsend is started on a file of some length, which can be opened or not,
\* and a receiver, single or batch, has printed its READY! and awaits the
\* four size bytes.
InitSend ==
  /\ env = "unit"
  /\ nargs = 0
  /\ InitProgram
  /\ crcCall = Idle /\ rd = Idle /\ mat = Idle /\ cfg = Idle /\ rcv = Idle
  /\ sc = Idle
  /\ \E st \in Lengths, openable \in BOOLEAN, mode \in {"single", "batch"} :
       snd = [unit |-> "send", st |-> st, openable |-> openable, pc |-> "start",
              wire |-> << >>, mode |-> mode, rpc |-> "size", size |-> << 0, 0 >>,
              nread |-> << 0, 0, 0 >>]

\* rawsend: no file name or fopen fails: "NO!", return 1.
SendUsage ==
  /\ snd.unit = "send" /\ snd.pc = "start"
  /\ ~snd.openable
  /\ snd' = [snd EXCEPT !.wire = Append(snd.wire, "NO!"), !.pc = "exit1"]
  /\ OnlySend

\* rawsend: the file is open, its length taken with stat, "READY!" printed
\* and flushed.
SendReady ==
  /\ snd.unit = "send" /\ snd.pc = "start"
  /\ snd.openable
  /\ snd' = [snd EXCEPT !.wire = Append(snd.wire, "READY!"), !.pc = "size"]
  /\ OnlySend

\* rawsend: write(1, swapbuf, 4); tcdrain(1).
SendSize ==
  /\ snd.unit = "send" /\ snd.pc = "size"
  /\ snd' = [snd EXCEPT !.wire = Append(snd.wire, swapbuf(ToUnsigned(snd.st))),
                        !.pc = "body"]
  /\ OnlySend

\* rawsend: the file is read to its end in blocks of 1024 bytes and each block
\* written; the terminal is restored; return 0.
SendBody ==
  /\ snd.unit = "send" /\ snd.pc = "body"
  /\ snd' = [snd EXCEPT !.wire = Append(snd.wire, [body |-> snd.st]),
                        !.pc = "exit0"]
  /\ OnlySend

\* rawrcv: the four size bytes have arrived (in batch mode the 52 header
\* bytes, of which they are the first four) and size is put together.
RcvSize ==
  /\ snd.unit = "send" /\ snd.rpc = "size"
  /\ Len(snd.wire) >= 2
  /\ snd' = [snd EXCEPT !.size = SizeOf(snd.wire[2]), !.rpc = "body"]
  /\ OnlySend

\* rawrcv: while (nread < size) the bytes of the body are read one by one:
\* size of them, or all there are when the sender has finished with fewer.
RcvBody ==
  /\ snd.unit = "send" /\ snd.rpc = "body"
  /\ Len(snd.wire) >= 3
  /\ LET want == << 0, snd.size[1], snd.size[2] >>
         sent == snd.wire[3].body
     IN  snd' = [snd EXCEPT !.nread = IF Fewer(sent, want) THEN sent ELSE want,
                            !.rpc = "reply"]
  /\ OnlySend

NextSend ==
  \/ SendUsage
  \/ SendReady
  \/ SendSize
  \/ SendBody
  \/ RcvSize
  \/ RcvBody

\* The runs of rawsend on one file, its bytes read by rawrcv.
SpecSend == InitSend /\ [][NextSend]_vars

(* ------------------------------------------- sc2mat (Sensors/sc2mat.c) *)

\* The most records of an input of sc2mat.
MaxScRecords == 3

\* max_count = max_countAtt = 200000: the columns of sc2mat's channels.
sc2mat_max_count == 200000

\* The beam and cell counts of the metadata records (0xa5a1) of the inputs.
MetaCounts == { << 3, 1 >>, << 3, 2 >>, << 4, 1 >>, << 5, 1 >> }

\* The stores beamv[j][i][count] of the loops of an averaged ensemble.
ScCells(nb, nc) == (0..(nb - 1)) \X (0..(nc - 1))

\* Every store of the ensemble lands in the rows Darray allocated, in one of
\* the 4 slots of beamv, at a column that exists.
ScDefined(nb, nc, rows, c) ==
  /\ c < sc2mat_max_count
  /\ \A x \in ScCells(nb, nc) : x[1] < 4 /\ x[2] < rows

OnlySc ==
  UNCHANGED << env, nargs, pc, ii, fpOpen, output, count, sizing, scalars, samples,
               buff, ptr, T, decoded, closed, asserted, ev, crcCall, rd, mat, cfg,
               rcv, snd >>

\* An input was opened and its header block passed: the statics num_beams
\* and num_cells are 0, count is 0, nothing is allocated.
InitSc ==
  /\ env = "unit"
  /\ nargs = 0
  /\ InitProgram
  /\ crcCall = Idle /\ rd = Idle /\ mat = Idle /\ cfg = Idle /\ rcv = Idle
  /\ snd = Idle
  /\ sc = [unit |-> "sc", num_beams |-> 0, num_cells |-> 0, count |-> 0,
           rows |-> 0, met |-> FALSE, n |-> 0, pc |-> "scan",
           last |-> [act |-> "fopen"]]

\* sync == 0xa5a1: the counts are read into num_beams and num_cells; continue.
ScMeta ==
  /\ sc.unit = "sc" /\ sc.pc = "scan" /\ sc.n < MaxScRecords
  /\ \E m \in MetaCounts :
       sc' = [sc EXCEPT !.num_beams = m[1], !.num_cells = m[2], !.met = TRUE,
                        !.n = sc.n + 1, !.last = [act |-> "meta"]]
  /\ OnlySc

\* A record of another sync word (0xa5a2, 0xa5a3, 0xa5a6, 0x2025 or none of
\* them): the counts, count and beamv are left as they are.
ScOther ==
  /\ sc.unit = "sc" /\ sc.pc = "scan" /\ sc.n < MaxScRecords
  /\ sc' = [sc EXCEPT !.n = sc.n + 1, !.last = [act |-> "other"]]
  /\ OnlySc

\* What is kept of an averaged ensemble: the counts its loops ran over, the
\* rows beamv had, its column, and whether a metadata record came before it.
ScStored ==
  [act |-> "ensemble", nb |-> sc.num_beams, nc |-> sc.num_cells,
   rows |-> IF sc.count = 0 THEN sc.num_cells ELSE sc.rows,
   col |-> sc.count, met |-> sc.met]

\* sync == 0xa5a5: with count == 0 the rows of beamv[0..3] are allocated for
\* num_cells cells; the scalars are stored at column count, the loops store
\* num_beams * num_cells velocities, count++.  A store outside the rows or
\* the slots is undefined: the run dies, or goes on.
ScEnsemble ==
  /\ sc.unit = "sc" /\ sc.pc = "scan" /\ sc.n < MaxScRecords
  /\ LET rows == IF sc.count = 0 THEN sc.num_cells ELSE sc.rows
         ok == ScDefined(sc.num_beams, sc.num_cells, rows, sc.count)
     IN  \E how \in {"scan", "crashed", "undefined"} :
           /\ how = "scan" <=> ok
           /\ sc' = [sc EXCEPT !.rows = rows, !.count = sc.count + 1,
                               !.n = sc.n + 1, !.last = ScStored, !.pc = how]
  /\ OnlySc

\* The input ends: the loops are left and WriteMatlab writes the arrays and
\* exits.
ScDrain ==
  /\ sc.unit = "sc" /\ sc.pc = "scan"
  /\ sc' = [sc EXCEPT !.pc = "exit0"]
  /\ OnlySc

NextSc ==
  \/ ScMeta
  \/ ScOther
  \/ ScEnsemble
  \/ ScDrain

\* The record loop of sc2mat's main() over the bounded inputs.
SpecSc == InitSc /\ [][NextSc]_vars

(* ------------------------------------------------------------- properties *)

\* The frame the last step read, when it read one.
Last == FrameOf(ev.tag)

\* The matrix the nibble tuple stands for.
Implied(nib) ==
  IF nib = << 1, 2, 4, 0 >> THEN "beam_124"
  ELSE IF nib = << 2, 3, 4, 0 >> THEN "beam_234"
  ELSE "beam_ident"

\* f is a velocity ensemble of 3 beams.
Velocity3(f) == f.id \in {ID_BURST, ID_AVERAGE} /\ numBeams(f) = 3

\* f is a configuration string whose nine values equal neither known matrix.
AssertsUnknown(f) ==
  f.id = ID_CONFIG /\ f.key /\ f.n = 9 /\ f.M # beam_124 /\ f.M # beam_234

\* C1: a configuration string whose nine parsed values equal neither
\* beam_124 nor beam_234 element for element stops the run at that record
\* with a failure status (return 1): no step follows it, so no later frame is
\* decoded, WriteMatlab is never called and the container holds no array.
C1_BailOnUnknownMatrix ==
  /\ []( (ev.act = "ConfigString" /\ AssertsUnknown(Last))
           => (pc = "exit1" /\ ev.msg = "bail" /\ container = << >>) )
  /\ [][pc # "exit1"]_vars

\* C1: the run has bailed out on a matrix that differs from beam_124 in its
\* last element only, with an ensemble already accumulated.
C1_Witness ==
  /\ pc = "exit1"
  /\ ev.act = "ConfigString"
  /\ ev.tag = 16
  /\ count > 0

\* C2 as stated: after a run that ends in a fatal error the output path was
\* neither created nor truncated by the run.
C2_Original == pc = "exit1" => disk = "untouched"

\* C2: a run that ends in a fatal error leaves no array in the container.
\* The output path is untouched only when the run fails on its arguments or
\* on opening the output; every other run has created it or cut it to length
\* zero before the first input is read, and a failed run leaves it empty.
\* Arrays reach the container only through the final WriteMatlab of a run
\* that exits with status 0.
C2_NoArrayOnFailure ==
  /\ pc = "exit1" => container = << >>
  /\ disk = "untouched" <=> (pc = "start" \/ ev.act = "Usage")
  /\ container # << >> => (pc = "exit0" /\ ev.act = "WriteMatlab")

\* C2: a run with an ensemble accumulated has failed, the output path having
\* been created (or truncated) and left without any array.
C2_Witness ==
  /\ pc = "exit1"
  /\ disk = "created"
  /\ count > 0
  /\ container = << >>

\* C3: once a configuration string has asserted a known matrix, a 3-beam
\* ensemble whose nibble tuple stands for another matrix aborts the run
\* (return 1): it is not appended and nothing is written.
C3_CalibrationMismatchAborts ==
  [][ ( /\ ev'.act = "DecodeEnsemble"
        /\ Velocity3(FrameOf(ev'.tag))
        /\ \E m \in asserted : m # Implied(FrameOf(ev'.tag).nib) )
      => (pc' = "exit1" /\ count' = count /\ container' = << >>) ]_vars

\* The family of ensemble f.
Family(f) == IF f.id = ID_ECHO THEN "echo" ELSE "velocity"

\* The family of the ensemble that sized the storage.
Sized == IF "echo" \in alloc THEN "echo" ELSE "velocity"

\* C4: once the storage is sized, an ensemble of the other family raises an
\* error (return 1): count and every channel are left as they were.
C4_OtherFamilyRejected ==
  [][ ( /\ ev'.act = "DecodeEnsemble"
        /\ count > 0
        /\ Family(FrameOf(ev'.tag)) # Sized )
      => (pc' = "exit1" /\ count' = count /\ UNCHANGED << scalars, samples >>) ]_vars

\* C5: every column store of a decoded ensemble uses an index below
\* max_count, and count never passes max_count.
C5_ColumnBelowCapacity ==
  /\ ev.act = "DecodeEnsemble" => ev.col < max_count
  /\ count <= max_count

\* ensemble f declares other counts than the ones the first ensemble fixed.
Changed(f) ==
  IF f.id = ID_ECHO
  THEN num_beams # 1 \/ echo_cells(f) # num_cells
  ELSE numBeams(f) # num_beams \/ numCells(f) # num_cells

\* C6: after the first ensemble, an ensemble of the same family that
\* declares another beam count or cell count is not appended and none of its
\* samples is stored.
C6_ChangedCountsRejected ==
  [][ ( /\ ev'.act = "DecodeEnsemble"
        /\ count > 0
        /\ Family(FrameOf(ev'.tag)) = Sized
        /\ Changed(FrameOf(ev'.tag)) )
      => (count' = count /\ decoded' = decoded /\ UNCHANGED << scalars, samples >>) ]_vars

\* C7: a short read adds no column and leaves count as it was, closes the
\* input and goes on to the next input or, after the last one, to the
\* WriteMatlab call, which then writes the arrays and exits with status 0.
C7_ShortReadEndsInputOnly ==
  /\ [][ ev'.act = "ShortRead"
         => ( /\ count' = count
              /\ UNCHANGED << scalars, samples, sizing, decoded, output >>
              /\ fpOpen /\ ~fpOpen'
              /\ closed' = closed \cup {ii}
              /\ pc' = IF ii + 1 <= nin THEN "open" ELSE "drain" ) ]_vars
  /\ [][ (pc = "drain" /\ ev.act = "ShortRead")
         => (pc' = "exit0" /\ container' # << >>) ]_vars

\* The steps the two readings of C8 agree on: the arrays are written in one
\* step, by WriteMatlab, to a container that holds nothing yet; out is then
\* closed, no input is open, and no step follows.
C8_DrainedOnce ==
  /\ [][ container' # container
         => ( /\ container = << >>
              /\ pc = "drain"
              /\ ev'.act = "WriteMatlab"
              /\ pc' = "exit0"
              /\ ~outOpen' ) ]_vars
  /\ [](pc = "exit0" => (container # << >> /\ ~outOpen /\ ~fpOpen))
  /\ [](container # << >> => pc = "exit0")
  /\ [][pc # "exit0"]_vars

Holds(f, c) ==
  /\ Rd(pressure, c) = D(f.pressure, -3)
  /\ Rd(temperature, c) = D(f.temperature, -2)
  /\ Rd(roll, c) = D(f.roll, -2)
  /\ Rd(t, c) = D(f.tt * 10000 + f.microSeconds100, -4)
  /\ "echo" \in alloc =>
       /\ Rd(power, c) # Indet
       /\ Rd(beamN, c) # Indet
       /\ \A i \in 0..(num_cells - 1) : Rd2(echo, i, c) # Indet
  /\ "vel" \in alloc =>
       \A x \in (0..(num_beams - 1)) \X (0..(num_cells - 1)) :
         Rd2(beamv, x, c) # Indet /\ Rd2(amp, x, c) # Indet /\ Rd2(corr, x, c) # Indet

\* C9: count is the number of ensembles decoded so far, and in every state
\* the k-th of them is what column k-1 of every active channel holds.
C9_AppendOnly ==
  /\ count = Len(decoded)
  /\ \A k \in 1..Len(decoded) : Holds(FrameOf(decoded[k]), k - 1)

\* C10: in a velocity run, a 3-beam velocity ensemble is transformed by the
\* matrix its nibble tuple stands for, the identity when the tuple is neither
\* (1,2,4,0) nor (2,3,4,0); in that case the warning is printed, the ensemble
\* is appended and the decode loop goes on.
C10_MatrixByNibbles ==
  (ev.act = "DecodeEnsemble" /\ Velocity3(Last) /\ "echo" \notin alloc)
    => /\ ev.used = Implied(Last.nib)
       /\ Implied(Last.nib) = "beam_ident"
            => /\ ev.msg = "unknownbeam"
               /\ pc = "scan"
               /\ Len(decoded) = ev.col + 1
               /\ decoded[ev.col + 1] = ev.tag

\* C11: the matrix applied to a 3-beam velocity ensemble that was decoded and
\* appended is the one the selection yields for its nibble tuple when the
\* ensemble is the first of a run: it depends neither on the matrix an
\* earlier ensemble selected nor on the beam count the first ensemble fixed,
\* so two ensembles with the same tuple get the same matrix.
C11_HistoryIndependent ==
  (ev.act = "DecodeEnsemble" /\ Velocity3(Last) /\ pc = "scan")
    => ev.used = SelectT(Last.nib, numBeams(Last), "uninit")

\* 10^n for n >= 0.
RECURSIVE Pow10(_)
Pow10(n) == IF n = 0 THEN 1 ELSE 10 * Pow10(n - 1)

\* The fixed-point values x and y are the same number.
SameValue(x, y) ==
  LET m == IF x[2] < y[2] THEN x[2] ELSE y[2]
  IN  x[1] * Pow10(x[2] - m) = y[1] * Pow10(y[2] - m)

\* raw[k][i]: the signed 16-bit sample of beam k, cell i of ensemble f.
Raw(f, k, i) ==
  LET w == f.data[k * numCells(f) + i] IN IF w >= 32768 THEN w - 65536 ELSE w

\* The last step decoded ensemble Last with every store inside the storage
\* and appended it.
Appended == ev.act = "DecodeEnsemble" /\ pc = "scan"

\* C12: for a 3-beam velocity ensemble appended at column c, each stored
\* beamv[j][i][c] is the sum over k of T[j][k] * 10^velocityScaling *
\* raw[k][i], T being the matrix selected for it (entries in units of 10^-4);
\* with the identity it is 10^velocityScaling * raw[j][i].
C12_TransformedVelocity ==
  (Appended /\ Velocity3(Last))
    => \A j \in 0..2, i \in 0..(numCells(Last) - 1) :
         LET v == Rd2(beamv, << j, i >>, ev.col)
             M == Mat(ev.used)
         IN  /\ v = << M[3 * j + 1] * Raw(Last, 0, i) + M[3 * j + 2] * Raw(Last, 1, i)
                       + M[3 * j + 3] * Raw(Last, 2, i),
                       Last.velocityScaling - 4 >>
             /\ ev.used = "beam_ident"
                  => SameValue(v, << Raw(Last, j, i), Last.velocityScaling >>)

\* C12: a 3-beam ensemble with a negative sample was transformed with
\* beam_124 and stored at the second column.
C12_Witness ==
  /\ Appended
  /\ ev.tag = 1
  /\ ev.col = 1
  /\ ev.used = "beam_124"
  /\ Raw(Last, 0, 1) = -1
  /\ Rd2(beamv, << 0, 1 >>, 1) = << -155132, -7 >>

\* C13: for a velocity ensemble whose beam count is not 3, appended at column
\* c, each stored beamv[j][i][c] is the raw sample hVel[j * numCells + i]:
\* no scale and no matrix is applied, whatever the nibble tuple selected.
C13_PassThrough ==
  (Appended /\ Last.id \in {ID_BURST, ID_AVERAGE} /\ numBeams(Last) # 3)
    => \A j \in 0..(numBeams(Last) - 1), i \in 0..(numCells(Last) - 1) :
         Rd2(beamv, << j, i >>, ev.col) = << Raw(Last, j, i), 0 >>

\* C13: a 4-beam ensemble whose nibbles select beam_124 was appended with its
\* negative sample stored as it was read.
C13_Witness ==
  /\ Appended
  /\ ev.tag = 7
  /\ numBeams(Last) = 4
  /\ T = "beam_124"
  /\ Rd2(beamv, << 0, 1 >>, ev.col) = << -1, 0 >>
  /\ Rd2(beamv, << 3, 1 >>, ev.col) = << 77, 0 >>

\* The positions of the arrays called name in the container.
Named(name) == { x \in DOMAIN container : container[x].h.name = name }

\* The array called name, when there is one.
Array(name) == container[CHOOSE x \in Named(name) : TRUE]

\* The run ended in the writer after decoding at least one ensemble.
Drained == pc = "exit0" /\ Len(decoded) >= 1

\* The array called name is written once, as a vector of the N decoded
\* ensembles whose entry k is the value val(f) * 10^e of the k-th ensemble f.
SeriesOf(name, val(_), e) ==
  /\ Cardinality(Named(name)) = 1
  /\ Array(name).h.mrows = Len(decoded)
  /\ Array(name).h.ncols = 1
  /\ DOMAIN Array(name).data = 1..Len(decoded)
  /\ \A k \in 1..Len(decoded) :
       Array(name).data[k] = << val(FrameOf(decoded[k])), e >>

\* C14: when a run of N >= 1 ensembles has been decoded and drained, the
\* written vectors pressure, temperature, heading, pitch and roll have N
\* entries, entry k being the k-th ensemble's raw field times 0.001
\* (pressure) or 0.01 (the others), applied once; magX, magY and magZ hold
\* the raw values.
C14_ScalarsEndToEnd ==
  Drained =>
    /\ LET v(f) == f.pressure IN SeriesOf("pressure", v, -3)
    /\ LET v(f) == f.temperature IN SeriesOf("temperature", v, -2)
    /\ LET v(f) == f.heading IN SeriesOf("heading", v, -2)
    /\ LET v(f) == f.pitch IN SeriesOf("pitch", v, -2)
    /\ LET v(f) == f.roll IN SeriesOf("roll", v, -2)
    /\ LET v(f) == f.magnHxHyHz[1] IN SeriesOf("magX", v, 0)
    /\ LET v(f) == f.magnHxHyHz[2] IN SeriesOf("magY", v, 0)
    /\ LET v(f) == f.magnHxHyHz[3] IN SeriesOf("magZ", v, 0)

\* C14: two ensembles of raw pressure 3000 and 1000 and raw heading 1800
\* were decoded and drained: the vectors read 3.0, 1.0 and 18.0, 18.0.
C14_Witness ==
  /\ Drained
  /\ decoded = << 3, 1 >>
  /\ Array("pressure").data = << << 3000, -3 >>, << 1000, -3 >> >>
  /\ SameValue(Array("pressure").data[2], << 1, 0 >>)
  /\ SameValue(Array("heading").data[1], << 18, 0 >>)
  /\ Array("magY").data = << << -3, 0 >>, << -1, 0 >> >>

\* The names of the arrays of the container, in the order they were written.
Names == [x \in DOMAIN container |-> container[x].h.name]

\* The names of the per-beam matrices of kind k ("corr", "amp").
PerBeam(k) ==
  IF k = "corr"
  THEN << "corr1", "corr2", "corr3" >> \o (IF num_beams = 4 THEN << "corr4" >> ELSE << >>)
  ELSE << "amp1", "amp2", "amp3" >> \o (IF num_beams = 4 THEN << "amp4" >> ELSE << >>)

\* The names of the arrays every container ends with.
EnvNames ==
  << "pressure", "temperature", "heading", "pitch", "roll",
     "magX", "magY", "magZ", "time", "cellSize", "blanking" >>

\* The names of a velocity run's container, with or without the optional
\* matrices.
VelocityLayout(withCorr, withAmp) ==
  (IF num_beams = 4 THEN << "vel1", "vel2", "vel3", "vel4" >>
                    ELSE << "velX", "velY", "velZ" >>)
    \o (IF withCorr THEN PerBeam("corr") ELSE << >>)
    \o (IF withAmp THEN PerBeam("amp") ELSE << >>)
    \o EnvNames

\* The ensembles decoded in the run all are velocity ensembles of the beam
\* and cell counts the storage was sized with.
UniformVelocityRun ==
  /\ "vel" \in alloc
  /\ \A k \in 1..Len(decoded) :
       /\ FrameOf(decoded[k]).id \in {ID_BURST, ID_AVERAGE}
       /\ numBeams(FrameOf(decoded[k])) = num_beams
       /\ numCells(FrameOf(decoded[k])) = num_cells

\* Array x of the container is a matrix.
IsMatrix(x) == Names[x] \notin { EnvNames[k] : k \in 1..Len(EnvNames) }

\* C15: the container of a velocity run holds vel1..vel4 (4 beams) or velX,
\* velY, velZ, then the correlation matrices if included, then the amplitude
\* matrices if included, then pressure, temperature, heading, pitch, roll,
\* magX, magY, magZ, time, cellSize, blanking; each matrix is num_cells x
\* count, each time series has count entries, cellSize and blanking have
\* one, and no matrix holds an element the decoder did not store.
C15_VelocityContainer ==
  (Drained /\ UniformVelocityRun)
    => /\ \E withCorr \in BOOLEAN, withAmp \in BOOLEAN :
            Names = VelocityLayout(withCorr, withAmp)
       /\ \A x \in DOMAIN container :
            IF IsMatrix(x)
            THEN /\ container[x].h.mrows = num_cells
                 /\ container[x].h.ncols = count
                 /\ \A k \in DOMAIN container[x].data : container[x].data[k] # Indet
            ELSE /\ container[x].h.mrows =
                      (IF Names[x] \in {"cellSize", "blanking"} THEN 1 ELSE count)
                 /\ container[x].h.ncols = 1

\* C16: in a run whose storage was sized by an echo ensemble the beam count
\* is 1 and the cell count is that ensemble's echo_cells; the container holds
\* the matrix echo of num_cells x count, the vectors beam and power of count
\* entries, then pressure .. blanking as in a velocity run, and no velocity,
\* amplitude or correlation matrix.
C16_EchoContainer ==
  (Drained /\ "echo" \in alloc)
    => /\ FrameOf(decoded[1]).id = ID_ECHO
       /\ num_beams = 1
       /\ num_cells = echo_cells(FrameOf(decoded[1]))
       /\ Names = << "echo", "beam", "power" >> \o EnvNames
       /\ container[1].h.mrows = num_cells
       /\ container[1].h.ncols = count
       /\ Len(container[1].data) = num_cells * count
       /\ \A x \in 2..Len(container) :
            /\ container[x].h.mrows =
                 (IF Names[x] \in {"cellSize", "blanking"} THEN 1 ELSE count)
            /\ container[x].h.ncols = 1
            /\ Len(container[x].data) = container[x].h.mrows

\* C16: two echo ensembles of 2 cells were decoded and drained: echo is 2 x 2
\* and holds their samples times 0.01 column by column, beam holds the first
\* nibble and power the power level of each.
C16_Witness ==
  /\ Drained
  /\ decoded = << 6, 6 >>
  /\ num_cells = 2
  /\ container[1].data = << << 60, -2 >>, << 65535, -2 >>, << 60, -2 >>, << 65535, -2 >> >>
  /\ container[2].data = << << 1, 0 >>, << 1, 0 >> >>
  /\ container[3].data = << << -2, 0 >>, << -2, 0 >> >>

\* Bit k (counted from 1, most significant bit of the first byte first) of
\* a block followed by 16 zero bits.
Bit(block, k) ==
  IF k > 8 * Len(block) THEN 0
  ELSE (block[((k - 1) \div 8) + 1] \div (2 ^ (7 - ((k - 1) % 8)))) % 2

\* The remainder of the division of the polynomial block(x) * x^16 by
\* x^16 + x^12 + x^5 + 1 over GF(2): r is the remainder of the first k - 1
\* coefficients (below 2^16, the test makes TLC evaluate it at each step).
RECURSIVE Remainder(_, _, _)
Remainder(block, k, r) ==
  IF k > 8 * Len(block) + 16 \/ r >= 65536 THEN r
  ELSE LET r1 == 2 * r + Bit(block, k)
           r2 == IF r1 >= 65536 THEN Xor(r1, 69665) ELSE r1
       IN  Remainder(block, k + 1, r2)

\* The XMODEM CRC of a block, initial value 0.
Xmodem(block) == Remainder(block, 1, 0)

\* C20: what CalcCRC returns for the first n bytes of a block is their
\* 16-bit XMODEM CRC (polynomial 0x1021, initial value 0, most significant
\* bit first), a value below 2^16, 0 for n = 0; and CalcCRC of those bytes
\* followed by that CRC, high byte first, is 0.
C20_XmodemCRC ==
  /\ crcCall.unit = "crc"
  /\ crcCall.c # -1
       => /\ crcCall.c = Xmodem(SubSeq(crcCall.block, 1, crcCall.n))
          /\ crcCall.c \in 0..65535
          /\ crcCall.n = 0 => crcCall.c = 0
  /\ crcCall.again # -1 => crcCall.again = 0

\* C20: the CRC of "123456789" came out as 0x31C3, and that of the digits
\* followed by 0x31, 0xC3 as 0.
C20_Witness ==
  /\ crcCall.unit = "crc"
  /\ crcCall.block = CheckBlock
  /\ crcCall.n = 9
  /\ crcCall.c = 12739
  /\ crcCall.again = 0

\* The 16-bit little-endian number at 0-based offset k of the input.
LittleEndian16(k) == rd.bytes[k + 1] + 256 * rd.bytes[k + 2]

\* C19: every frame the scan accepted starts with the sync pair, its payload
\* has as many bytes as the little-endian length field at offset 4 of the
\* frame says, the scan consumed 2 + 8 + length bytes for it, frames do not
\* overlap, and the iteration after an accepted frame starts at the byte that
\* follows its payload.
C19_FramingRoundTrip ==
  rd.unit = "scan" =>
    /\ \A k \in DOMAIN rd.frames :
         LET f == rd.frames[k]
         IN  /\ rd.bytes[f.start + 1] = 165 /\ rd.bytes[f.start + 2] = 10
             /\ f.sz = LittleEndian16(f.start + 4)
             /\ Len(f.payload) = LittleEndian16(f.start + 4)
             /\ f.next - f.start = 2 + 8 + LittleEndian16(f.start + 4)
             /\ f.payload = SubSeq(rd.bytes, f.start + 11, f.next)
             /\ k > 1 => f.start >= rd.frames[k - 1].next
    /\ rd.last = "ScanFrame" => rd.pos = rd.frames[Len(rd.frames)].next
    /\ rd.prev = "ScanFrame" =>
         rd.from = rd.frames[Len(rd.frames) - (IF rd.last = "ScanFrame" THEN 1 ELSE 0)].next

\* C19: a frame of length 2 whose payload is a sync pair and a frame of
\* length 0 right after it were both accepted, the second starting where the
\* payload of the first ended.
C19_Witness ==
  /\ rd.unit = "scan"
  /\ Len(rd.frames) = 2
  /\ rd.frames[1].sz = 2
  /\ rd.frames[1].payload = << 165, 10 >>
  /\ rd.frames[2].start = rd.frames[1].start + 12
  /\ rd.frames[2].sz = 0
  /\ rd.pos = rd.frames[2].start + 10

(* A reader of the level-4 container format, for files written on a
   little-endian host. *)

\* Byte number k (from 1) of the file, 0 past its end.
FileByte(k) == IF k \in DOMAIN mat.bytes THEN mat.bytes[k] ELSE 0

\* The 4-byte integer at offset off (from 0).
ReadInt(off) ==
  FileByte(off + 1) + 256 * FileByte(off + 2) + 65536 * FileByte(off + 3)
    + 16777216 * (FileByte(off + 4) % 64)

\* The 16-bit integer at offset off, signed or not.
ReadShort(off, signed) ==
  LET u == FileByte(off + 1) + 256 * FileByte(off + 2)
  IN  IF signed /\ u >= 32768 THEN u - 65536 ELSE u

\* The binary64 at offset off, as an integer << m, 0 >> or an odd number of
\* halves << 5 * k, -1 >>; Indet when it is not a number of fewer than 512
\* halves.
ReadDouble(off) ==
  LET b(k) == FileByte(off + 9 - k)
      sign == b(1) \div 128
      biased == (b(1) % 128) * 16 + b(2) \div 16
      frac8 == (b(2) % 16) * 16 + b(3) \div 16
      e2 == biased - 1022
      rest == (b(3) % 16) + b(4) + b(5) + b(6) + b(7) + b(8)
  IN  IF b(1) % 128 = 0 /\ b(2) = 0 /\ b(3) \div 16 = 0 /\ rest = 0 THEN << 0, 0 >>
      ELSE IF rest # 0 \/ e2 < 0 \/ e2 > 8 \/ (frac8 * (2 ^ e2)) % 256 # 0 THEN Indet
      ELSE LET mag == 2 ^ e2 + (frac8 * (2 ^ e2)) \div 256
               h == IF sign = 1 THEN -mag ELSE mag
           IN  IF h % 2 = 0 THEN << h \div 2, 0 >> ELSE << 5 * h, -1 >>

\* The element kind a type tag stands for.
KindOf(type) ==
  LET P == (type \div 10) % 10
  IN  IF P = 0 THEN "Float64" ELSE IF P = 3 THEN "Int16" ELSE IF P = 4 THEN "UInt16" ELSE "other"

\* The array that starts at offset off: its header, its name without the
\* NUL that ends it, its elements by row and column, and the offset of what
\* follows it.
ReadArray(off) ==
  LET type == ReadInt(off)
      mrows == ReadInt(off + 4)
      ncols == ReadInt(off + 8)
      namlen == ReadInt(off + 16)
      kind == KindOf(type)
      size == IF kind = "Float64" THEN 8 ELSE 2
      data == off + 20 + namlen
      elem(k) == IF kind = "Float64" THEN ReadDouble(data + size * k)
                 ELSE << ReadShort(data + size * k, kind = "Int16"), 0 >>
  IN  [order |-> type \div 1000, kind |-> kind, mrows |-> mrows, ncols |-> ncols,
       imagf |-> ReadInt(off + 12), namlen |-> namlen,
       name |-> [k \in 1..(namlen - 1) |-> FileByte(off + 20 + k)],
       nul |-> namlen >= 1 /\ FileByte(off + 20 + namlen) = 0,
       val |-> [x \in (0..(mrows - 1)) \X (0..(ncols - 1)) |-> elem(x[2] * mrows + x[1])],
       next |-> data + size * mrows * ncols]

\* The arrays of the file from offset off on.
RECURSIVE ReadFile(_)
ReadFile(off) ==
  IF off >= Len(mat.bytes) THEN << >>
  ELSE LET x == ReadArray(off) IN << x >> \o ReadFile(x.next)

\* The element at row r, column c of the array a call was handed.
Given(call, r, c) ==
  IF call.fn = "MatlabDoubleVector" THEN Sample(DoubleSamples, call.seed, 0, r)
  ELSE IF call.fn = "MatlabDoubleMatrix" THEN Sample(DoubleSamples, call.seed, r, c)
  ELSE LET v == IF call.fn = "MatlabVector" THEN Sample(ShortSamples, call.seed, 0, r)
                ELSE Sample(ShortSamples, call.seed, r, c)
       IN  IF call.unsign = 1 THEN << (v[1] + 65536) % 65536, 0 >> ELSE v

\* The element kind of the array a call was handed.
GivenKind(call) ==
  IF call.fn \in {"MatlabDoubleVector", "MatlabDoubleMatrix"} THEN "Float64"
  ELSE IF call.unsign = 1 THEN "UInt16" ELSE "Int16"

\* C18: reading the container back recovers as many arrays as were written,
\* in the order they were written, each with the name, the dimensions, the
\* element kind and the values it was handed to the writer with.
C18_RoundTrip ==
  mat.unit = "mat" =>
    LET back == ReadFile(0)
    IN  /\ Len(back) = Len(mat.calls)
        /\ \A k \in 1..Len(mat.calls) :
             LET call == mat.calls[k]
             IN  /\ back[k].name = Chars(call.name)
                 /\ back[k].nul
                 /\ back[k].mrows = call.nr
                 /\ back[k].ncols = call.nc
                 /\ back[k].kind = GivenKind(call)
                 /\ back[k].val =
                      [x \in (0..(call.nr - 1)) \X (0..(call.nc - 1)) |->
                         Given(call, x[1], x[2])]

\* C18: a vector of the doubles -0.5 and 2.5 called vel and a vector of the
\* unsigned shorts 1 and 65535 called a were written and read back.
C18_Witness ==
  /\ mat.unit = "mat"
  /\ Len(mat.calls) = 2
  /\ Len(ReadFile(0)) = 2
  /\ ReadFile(0)[1].kind = "Float64"
  /\ ReadFile(0)[1].name = << 118, 101, 108 >>
  /\ ReadFile(0)[1].val = [x \in (0..1) \X (0..0) |-> IF x[1] = 0 THEN << -5, -1 >> ELSE << 25, -1 >>]
  /\ ReadFile(0)[2].kind = "UInt16"
  /\ ReadFile(0)[2].name = << 97 >>
  /\ ReadFile(0)[2].mrows = 2
  /\ ReadFile(0)[2].val[<< 1, 0 >>] = << 65535, 0 >>

\* The offset after the last byte of the array written by call number k.
EndOf(k) == IF k = Len(mat.calls) THEN Len(mat.bytes) ELSE mat.calls[k + 1].start

\* The digit P of the type tag for an element kind.
TagDigit(kind) == IF kind = "Float64" THEN 0 ELSE IF kind = "Int16" THEN 3 ELSE 4

\* C17: each array lies in the file as the header (type tag 1000 * byte
\* order + 10 * P with P = 0 for Float64, 3 for Int16, 4 for UInt16; mrows =
\* rows; ncols = columns, 1 for a vector; imagf = 0; namlen = length of the
\* name + 1), the name and a NUL, then exactly rows * columns elements, the
\* element of row r and column c being number c * rows + r of them.
C17_ArrayLayout ==
  mat.unit = "mat" =>
    \A k \in 1..Len(mat.calls) :
      LET call == mat.calls[k]
          s == call.start
          len == Len(Chars(call.name))
          size == IF GivenKind(call) = "Float64" THEN 8 ELSE 2
          data == s + 20 + len + 1
          elem(n) == IF GivenKind(call) = "Float64" THEN ReadDouble(data + size * n)
                     ELSE << ReadShort(data + size * n, GivenKind(call) = "Int16"), 0 >>
      IN  /\ ReadInt(s) = 1000 * 0 + 10 * TagDigit(GivenKind(call))
          /\ ReadInt(s + 4) = call.nr
          /\ ReadInt(s + 8) = call.nc
          /\ call.fn \in {"MatlabDoubleVector", "MatlabVector"} => ReadInt(s + 8) = 1
          /\ ReadInt(s + 12) = 0
          /\ ReadInt(s + 16) = len + 1
          /\ SubSeq(mat.bytes, s + 21, s + 20 + len) = Chars(call.name)
          /\ FileByte(s + 20 + len + 1) = 0
          /\ EndOf(k) = data + size * call.nr * call.nc
          /\ \A r \in 0..(call.nr - 1), c \in 0..(call.nc - 1) :
               elem(c * call.nr + r) = Given(call, r, c)

\* C17: the 2 x 2 matrix of shorts (-1, 300; -32768, 0) was written under
\* the name a: 20 bytes of header, the name and its NUL, then -1, -32768,
\* 300, 0.
C17_Witness ==
  /\ mat.unit = "mat"
  /\ Len(mat.calls) = 1
  /\ mat.calls[1].fn = "MatlabMatrix"
  /\ mat.bytes = << 30, 0, 0, 0,  2, 0, 0, 0,  2, 0, 0, 0,  0, 0, 0, 0,  2, 0, 0, 0,
                    97, 0,
                    255, 255,  0, 128,  44, 1,  0, 0 >>

\* C21: a byte other than 0xa5 is dropped alone; 0xa5 followed by a byte other
\* than 0x0a is dropped together with that byte, and the scan goes on at the
\* byte after the pair: no frame is ever recognised at the second byte of a
\* dropped pair, and the step after the pair starts behind it.
C21_Resynchronisation ==
  [][ (rd.unit = "scan" /\ rd.open) =>
        /\ (Left >= 1 /\ Byte(1) # SYNC1) =>
             /\ rd'.pos = rd.pos + 1
             /\ rd'.frames = rd.frames /\ rd'.open
        /\ (Left >= 2 /\ Byte(1) = SYNC1 /\ Byte(2) # SYNC2) =>
             /\ rd'.pos = rd.pos + 2
             /\ rd'.frames = rd.frames /\ rd'.open
        /\ rd.last = "ScanResync" =>
             /\ rd.pos = rd.from + 2
             /\ \A k \in 1 .. Len(rd'.frames) : rd'.frames[k].start # rd.from + 1 ]_vars

\* The input begins a5 a5 0a and a whole prefix: the pair a5 a5 was dropped,
\* 0x0a was dropped alone, and no frame was recognised.
C21_Witness ==
  /\ rd.unit = "scan"
  /\ rd.prev = "ScanResync" /\ rd.last = "ScanSkip"
  /\ rd.pos = 3
  /\ SubSeq(rd.bytes, 1, 3) = << SYNC1, SYNC1, SYNC2 >>
  /\ Len(rd.bytes) >= 3 + PrefixLen
  /\ rd.frames = << >>

\* f is a configuration string with the key from which sscanf converts fewer
\* than nine values.
Malformed(f) == f.id = ID_CONFIG /\ f.key /\ f.n < 9

\* C22: a configuration string that holds GETXFAVG and yields fewer than nine
\* values prints the warning and nothing else happens: the run is not ended,
\* the input stays open and the scan goes on, and count, the sizing, every
\* channel, the matrix in effect, the matrices asserted so far and the
\* container are as they were.
C22_MalformedIsRecoverable ==
  [][ (ev'.act = "ConfigString" /\ Malformed(FrameOf(ev'.tag)))
      => ( /\ ev'.msg = "malformed"
           /\ pc = "scan" /\ pc' = "scan"
           /\ fpOpen /\ fpOpen'
           /\ UNCHANGED << count, sizing, scalars, samples, T, ptr, asserted,
                           decoded, output, ii >> ) ]_vars

\* C22: the malformed string arrived with an ensemble accumulated and a matrix
\* selected, and the scan goes on.
C22_Witness ==
  /\ ev.act = "ConfigString" /\ Malformed(Last)
  /\ ev.msg = "malformed"
  /\ count > 0 /\ T = "beam_124"
  /\ pc = "scan"

\* f is a record of an id without a branch in main().
Uninterpreted(f) == f.id \notin {ID_CONFIG, ID_BURST, ID_AVERAGE, ID_ECHO}

\* C23: a frame whose id is none of 0xA0, 0x15, 0x16, 0x1c is read whole into
\* buff and changes nothing in the accumulator: count, num_beams, num_cells,
\* cellSize, blanking, the allocation and every channel column are the same
\* before and after it; it prints nothing, and the scan goes on.
C23_OtherIdsIgnored ==
  [][ (pc = "scan" /\ ev'.tag # 0 /\ Uninterpreted(FrameOf(ev'.tag)))
      => ( /\ UNCHANGED << count, num_beams, num_cells, cellSize, blanking, alloc >>
           /\ UNCHANGED << scalars, samples, decoded, T, output >>
           /\ buff'.tag = ev'.tag
           /\ ev'.msg = "none"
           /\ pc' = "scan" /\ fpOpen' ) ]_vars

\* C23: such a frame was read with an ensemble accumulated.
C23_Witness ==
  /\ ev.tag # 0 /\ Uninterpreted(Last)
  /\ buff.tag = ev.tag
  /\ count > 0
  /\ pc = "scan"

\* C24: a configuration string whose own payload does not hold the key
\* GETXFAVG is ignored, whatever was read before it: when the bytes stored in
\* buff decide the search, the branch finds no key, prints no warning and
\* does not end the run.
C24_KeyInOwnPayloadOnly ==
  cfg.unit = "key" =>
    \A k \in 1..Len(cfg.log) :
      (cfg.log[k].id = ID_CONFIG /\ ~cfg.log[k].own /\ cfg.log[k].det)
        => cfg.log[k].v = "none"

\* What holds of C24: a payload without the key that a NUL ends is ignored.
KeySearchTerminated ==
  cfg.unit = "key" =>
    \A k \in 1..Len(cfg.log) :
      (cfg.log[k].id = ID_CONFIG /\ ~cfg.log[k].own /\ cfg.log[k].nul)
        => cfg.log[k].v = "none"

\* The run ended at a configuration string without the key, on the matrix in
\* the bytes an ignored record had left in buff.
KeyFromStaleBytesAborts ==
  /\ cfg.unit = "key" /\ Len(cfg.log) = 2
  /\ cfg.log[1].id = ID_OTHER /\ cfg.log[1].own
  /\ cfg.log[2].id = ID_CONFIG /\ ~cfg.log[2].own /\ cfg.log[2].det
  /\ cfg.log[2].v = "unknown"
  /\ cfg.pc = "exit1"

\* The warning was printed at a configuration string without the key.
KeyFromStaleBytesWarns ==
  /\ cfg.unit = "key" /\ Len(cfg.log) = 2
  /\ cfg.log[1].v = "malformed"
  /\ ~cfg.log[2].own /\ cfg.log[2].det
  /\ cfg.log[2].v = "malformed"

\* C25: the amplitude and the correlation matrices are in the container of a
\* velocity run exactly when the headconfig flags of one of the velocity
\* ensembles the run decoded say so: what was read after the last ensemble
\* does not change which arrays are written.
C25_FlagsOfADecodedEnsemble ==
  (Drained /\ "vel" \in alloc)
    => \E k \in 1..Len(decoded) :
         /\ (Named("amp1") # {}) <=> FrameOf(decoded[k]).ampIncluded
         /\ (Named("corr1") # {}) <=> FrameOf(decoded[k]).corrIncluded

\* The only ensemble of the run had both flags set, a configuration string
\* was read after it, and the container holds neither kind of matrix.
FlagsOfALaterFrame ==
  /\ Drained
  /\ decoded = << 1 >>
  /\ buff.tag = 11
  /\ Named("vel1") = {} /\ Named("velX") # {}
  /\ Named("amp1") = {} /\ Named("corr1") = {}

\* C26: the channel storage is allocated once in a run: the allocation and
\* the counts it is sized with change only in the step that decodes the first
\* ensemble (count 0, nothing allocated before it, column 0 written in it),
\* every later ensemble finds the storage allocated and leaves it as it is,
\* no step releases it, and every column is written with the storage
\* allocated.
C26_AllocatedOnce ==
  /\ [][ (alloc' # alloc \/ num_beams' # num_beams \/ num_cells' # num_cells)
         => ( /\ alloc = {} /\ count = 0
              /\ ev'.act = "DecodeEnsemble"
              /\ alloc' # {} /\ count' = 1 /\ ev'.col = 0 ) ]_vars
  /\ [][ (ev'.act = "DecodeEnsemble" /\ pc' # "crashed")
         => (alloc' # {} /\ (alloc = {} <=> count = 0)) ]_vars
  /\ [](count > 0 => alloc # {})
  /\ []((ev.col >= 0 /\ pc # "crashed") => alloc # {})

\* C26: the second ensemble of the run was decoded from the second input, in
\* the storage the first one allocated.
C26_Witness ==
  /\ ev.act = "DecodeEnsemble" /\ ev.col = 1
  /\ closed = {1} /\ fpOpen
  /\ count = 2
  /\ alloc = {"vel", "env"}
  /\ pc = "scan"

\* C27: the inputs are decoded strictly in argument order, each one read to
\* its end and closed before the next is opened: the file being read is an
\* input argument, every input argument before it has been read and closed,
\* and neither it nor one after it has been read before.
C27_InArgumentOrder ==
  fpOpen => (ii \in 1..nin /\ closed = 1..(ii - 1))

\* The program's own path, argv[0], was opened as an input after the last
\* input argument was closed.
OwnPathOpened ==
  /\ fpOpen /\ ii = 0
  /\ closed = 1..nin

\* After it the first input argument is being read a second time.
InputReadAgain ==
  /\ fpOpen /\ ii = 1
  /\ 1 \in closed

\* C28: in batch mode the count of received files is the number of distinct
\* file names answered OK, and the batch returns success only when
\* num_to_receive distinct file names have been received.
C28_CountsDistinctNames ==
  (rcv.unit = "rcv" /\ rcv.mode = "batch")
    => /\ rcv.i = Cardinality(rcv.received)
       /\ rcv.pc = "exit0" => Cardinality(rcv.received) >= rcv.num_to_receive

\* What holds of C28: the count changes only on a transfer answered OK, by
\* one, and not when the name is the one of the OK before it.
CountsChangesOfName ==
  [][ (rcv.unit = "rcv" /\ rcv'.i # rcv.i)
      => ( /\ rcv'.i = rcv.i + 1
           /\ rcv'.last.reply = "OK"
           /\ rcv.pc = "body"
           /\ rcv.prevName # rcv.fname ) ]_vars

\* A batch of three files has returned success with two names received, the
\* first of them sent again after the second.
ResentAfterAnother ==
  /\ rcv.unit = "rcv" /\ rcv.mode = "batch"
  /\ rcv.pc = "exit0"
  /\ rcv.num_to_receive = 3 /\ rcv.i = 3
  /\ rcv.received = { << 97 >>, << 98 >> }
  /\ rcv.out = << "READY!", "OK", "OK", "OK" >>

\* The replies among what was printed.
Replies == { k \in 1..Len(rcv.out) : rcv.out[k] \in {"E0", "E1", "E2", "OK"} }

\* C29: a transfer with verification (single mode with a size and a digest
\* given, or batch mode) is answered by one reply among E0, E1, E2 and OK: E0
\* exactly when the bytes received are not as many as announced; else E1, in
\* single mode only, exactly when the announced size is not the size given;
\* else E2 exactly when the digest computed from the file is not the string
\* expected; else OK.  A single transfer without them is not answered.
C29_ReplyPriority ==
  (rcv.unit = "rcv" /\ rcv.done > 0)
    => LET l == rcv.last
           single == rcv.mode = "single"
           short == l.nread # l.size
           other == l.size # l.size2
           differs == l.md5_in # md5_compute(l.data)
       IN  IF single /\ rcv.argc # 4
           THEN Replies = {}
           ELSE /\ Cardinality(Replies) = rcv.done
                /\ rcv.out[Len(rcv.out)] = l.reply
                /\ l.reply \in {"E0", "E1", "E2", "OK"}
                /\ l.reply = "E0" <=> short
                /\ l.reply = "E1" <=> (~short /\ single /\ other)
                /\ l.reply = "E2" <=> (~short /\ ~(single /\ other) /\ differs)
                /\ l.reply = "OK" <=> (~short /\ ~(single /\ other) /\ ~differs)

\* C29: a single transfer was answered E1, the body complete and the digest
\* other than the one expected.
C29_Witness ==
  /\ rcv.unit = "rcv" /\ rcv.mode = "single" /\ rcv.argc = 4
  /\ rcv.done = 1
  /\ rcv.last.reply = "E1"
  /\ rcv.last.nread = rcv.last.size
  /\ rcv.last.md5_in # md5_compute(rcv.last.data)

\* A batch transfer was answered E0, the digest being the one expected of the
\* bytes that arrived.
BatchAnsweredE0 ==
  /\ rcv.unit = "rcv" /\ rcv.mode = "batch"
  /\ rcv.last.reply = "E0"
  /\ rcv.last.md5_in = md5_compute(rcv.last.data)

\* C30: every return of rawrcv, single or batch, that follows the change of
\* the terminal attributes of standard input is made with the original
\* attributes restored.
C30_TerminalRestored ==
  (rcv.unit = "rcv" /\ rcv.pc \in {"exit0", "exit1"}) => rcv.tty = "orig"

\* rawrcv has returned after READY! without a header, the terminal raw.
LeftRaw ==
  /\ rcv.unit = "rcv"
  /\ rcv.pc = "exit1"
  /\ rcv.out = << "READY!" >>
  /\ rcv.tty = "raw"

\* C31: a batch receiver does not wait forever.  From the wait for a header
\* it goes on to a body, or it returns failure without a reply; a body that
\* stalls is answered E0, is not counted, and the next header is awaited;
\* success is returned only with num_to_receive files counted; and every
\* batch run whose sender stops sending comes to an end (a return, or the
\* end of defined behaviour at the fopen that is not tested).
C31_BatchTerminates ==
  /\ [][ (rcv.unit = "rcv" /\ rcv.mode = "batch" /\ rcv.pc = "header")
         => \/ rcv'.pc = "body" /\ rcv'.done = rcv.done
            \/ rcv'.pc \in {"crashed", "undefined"}
            \/ rcv'.pc = "exit1" /\ rcv'.out = rcv.out /\ rcv'.i = rcv.i ]_vars
  /\ [][ (rcv.unit = "rcv" /\ rcv.mode = "batch" /\ rcv.pc = "body"
          /\ rcv'.last.nread < rcv'.last.size)
         => /\ rcv'.out = Append(rcv.out, "E0")
            /\ rcv'.i = rcv.i
            /\ rcv'.i < rcv.num_to_receive
            /\ rcv'.pc = "header" ]_vars
  /\ []( (rcv.unit = "rcv" /\ rcv.mode = "batch" /\ rcv.pc = "exit0")
          => /\ rcv.i = rcv.num_to_receive
             /\ rcv.last.counted
             /\ Cardinality({ k \in 1..Len(rcv.out) : rcv.out[k] = "OK" }) >= rcv.i )
  /\ <>( (rcv.unit = "rcv" /\ rcv.mode = "batch")
          => rcv.pc \in {"exit0", "exit1", "crashed", "undefined"} )

\* C31: a body stalled and was answered E0, then the line stayed silent while
\* the next header was awaited, and the batch returned failure with no file
\* counted.
C31_Witness ==
  /\ rcv.unit = "rcv" /\ rcv.mode = "batch"
  /\ rcv.pc = "exit1"
  /\ rcv.last.reply = "E0"
  /\ rcv.last.nread < rcv.last.size
  /\ rcv.out = << "READY!", "E0" >>
  /\ rcv.i = 0

\* C32: for every file length s of 0..2^32-1, rawsend emits READY!, then the
\* four bytes of s from the most significant one, then the s bytes of the
\* file; rawrcv, single or batch, puts the four bytes together to the same s
\* and then takes exactly s bytes for the body.
C32_SizeRoundTrip ==
  (snd.unit = "send" /\ snd.openable /\ snd.st[1] = 0)
    => LET w1 == snd.st[2]
           w0 == snd.st[3]
           emitted == << "READY!",
                         << w1 \div 256, w1 % 256, w0 \div 256, w0 % 256 >>,
                         [body |-> snd.st] >>
       IN  /\ Len(snd.wire) <= 3
           /\ snd.wire = SubSeq(emitted, 1, Len(snd.wire))
           /\ snd.rpc \in {"body", "reply"} => snd.size = << w1, w0 >>
           /\ snd.rpc = "reply" => snd.nread = snd.st

\* C32: a file of 2^32 - 2^16 + 1 bytes was sent and a batch receiver has
\* taken as many for its body.
C32_Witness ==
  /\ snd.unit = "send" /\ snd.mode = "batch"
  /\ snd.st = << 0, 65535, 1 >>
  /\ snd.pc = "exit0"
  /\ snd.wire[2] = << 255, 255, 0, 1 >>
  /\ snd.rpc = "reply"
  /\ snd.size = << 65535, 1 >>
  /\ snd.nread = << 0, 65535, 1 >>

\* Outside the lengths of C32: of a file of 2^32 + 1 bytes the size bytes
\* announce one byte, and the receiver takes one byte for the body.
LongerThanUnsigned ==
  /\ snd.unit = "send"
  /\ snd.st = << 1, 0, 1 >>
  /\ snd.rpc = "reply"
  /\ snd.wire[2] = << 0, 0, 0, 1 >>
  /\ snd.nread = << 0, 0, 1 >>

\* C33: every store of a velocity ensemble into the per-beam storage (beamv,
\* amp, corr) uses a beam index below 4, the slots of the three arrays, and
\* a cell index below the num_cells the first ensemble sized the rows with.
C33_StoresInsideStorage ==
  [][ ev'.act = "DecodeEnsemble"
      => LET f == FrameOf(ev'.tag)
             nc == IF count = 0 THEN numCells(f) ELSE num_cells
         IN  \A x \in VelCells(f) : x[1] < 4 /\ x[2] < nc ]_vars

\* A one-cell ensemble sized the rows, and the two-cell ensemble after it
\* stored at cell index 1: the run died there.
StoredBeyondRows ==
  /\ pc = "crashed"
  /\ ev.act = "DecodeEnsemble" /\ ev.tag = 1
  /\ decoded = << 2 >>
  /\ num_cells = 1
  /\ \E x \in VelCells(FrameOf(1)) : x[2] >= num_cells

\* C34: of every decoded ensemble, the header fields and the samples that are
\* read lie inside the sz bytes of its own payload: every byte read was
\* stored by the fread of this record, none is left from an earlier record.
C34_ReadsInsidePayload ==
  (cfg.unit = "overlay" /\ cfg.last.act = "ensemble")
    => cfg.last.from = {cfg.last.k}

\* An ensemble of length 0 followed a complete one: every byte read for it
\* was a byte of the record before it.
ReadTheRecordBefore ==
  /\ cfg.unit = "overlay" /\ cfg.pc = "scan"
  /\ cfg.last.act = "ensemble"
  /\ cfg.last.sz = 0 /\ cfg.last.k = 2
  /\ cfg.last.from = {1}
  /\ cfg.count = 2

\* What holds of C34: an ensemble that carries velocity, amplitude and
\* correlation for its own counts is read inside its payload.
CompleteReadInside ==
  (cfg.unit = "overlay" /\ cfg.last.act = "ensemble" /\ cfg.last.tag = 1)
    => cfg.last.from = {cfg.last.k}

\* C35: the writer is reached only from a sized accumulator: when WriteMatlab
\* is called an ensemble has been decoded in the run, so that the channels it
\* drains are allocated and the two headconfig flags are read from a decoded
\* ensemble.
C35_WriterFromSizedAccumulator ==
  [][ ev'.act = "WriteMatlab"
      => (decoded # << >> /\ "env" \in alloc /\ ptr = "buff") ]_vars

\* A run that decoded no ensemble has written arrays from channels that were
\* never allocated, with flags read through the unassigned ptr.
DrainedUnsized ==
  /\ pc = "exit0"
  /\ decoded = << >> /\ count = 0
  /\ alloc = {} /\ ptr = "uninit"
  /\ container # << >>

\* The same run died at the read of the flags.
DiedAtTheFlags ==
  /\ pc = "crashed"
  /\ ev.act = "WriteMatlab"
  /\ decoded = << >>
  /\ container = << >>

\* C36: an input that cannot be opened ends the reading of inputs: it is not
\* read, no input named after it is opened, and the next step is the drain,
\* which writes the arrays accumulated from the inputs before it and exits
\* with status 0.
C36_UnopenableInputEndsReading ==
  /\ [][ ev'.act = "OpenInputFail"
         => ( /\ pc' = "drain" /\ ~fpOpen'
              /\ closed' = closed /\ closed = 1..(ii - 1)
              /\ UNCHANGED << count, scalars, samples, sizing, decoded, output >> ) ]_vars
  /\ [][ ev.act = "OpenInputFail"
         => ( /\ ev'.act = "WriteMatlab"
              /\ pc' = "exit0"
              /\ container' # << >> /\ ~outOpen'
              /\ closed' = closed ) ]_vars

\* What holds of C36: with an ensemble decoded from the inputs before it, the
\* input that cannot be opened is followed by the drain and exit(0).
UnopenableAfterEnsembles ==
  [][ (ev.act = "OpenInputFail" /\ decoded # << >>)
      => ( /\ ev'.act = "WriteMatlab"
           /\ pc' = "exit0"
           /\ container' # << >> /\ ~outOpen'
           /\ closed' = closed ) ]_vars

\* The first input could not be opened and the run died in the drain.
UnopenableFirstInputDied ==
  /\ pc = "crashed"
  /\ ev.act = "WriteMatlab"
  /\ closed = {} /\ ii = 1
  /\ decoded = << >>

\* A second input could not be opened and the ensemble of the first was
\* drained.
UnopenableSecondInputDrained ==
  /\ pc = "exit0"
  /\ closed = {1} /\ ii = 2 /\ nin >= 2
  /\ Len(decoded) = 1
  /\ container # << >>

\* C37: of every averaged ensemble of sc2mat, whatever the order of the
\* records, the velocity stores use a beam index below 4, a cell index below
\* the rows allocated by the first ensemble and a column below max_count; no
\* ensemble is stored before a metadata record has set the counts.
C37_ScStoresInside ==
  (sc.unit = "sc" /\ sc.last.act = "ensemble")
    => /\ sc.last.met
       /\ sc.last.col < sc2mat_max_count
       /\ \A x \in ScCells(sc.last.nb, sc.last.nc) : x[1] < 4 /\ x[2] < sc.last.rows

\* An ensemble was stored before any metadata record: its column is counted,
\* and beamv has no rows.
StoredBeforeMeta ==
  /\ sc.unit = "sc" /\ sc.pc = "scan"
  /\ sc.last.act = "ensemble" /\ ~sc.last.met
  /\ sc.count = 1 /\ sc.rows = 0

\* After it a metadata record set the counts, and the next ensemble stored
\* at cell index 0 of rows that do not exist.
StoredWithoutRows ==
  /\ sc.unit = "sc" /\ sc.pc \in {"crashed", "undefined"}
  /\ sc.last.act = "ensemble" /\ sc.last.met
  /\ sc.last.rows = 0 /\ sc.last.nc > 0
  /\ sc.last.col = 1

\* A metadata record of 5 beams came first: the ensemble stored through
\* beamv[4].
StoredInAFifthSlot ==
  /\ sc.unit = "sc" /\ sc.pc \in {"crashed", "undefined"}
  /\ sc.last.act = "ensemble" /\ sc.last.met
  /\ sc.last.nb = 5 /\ sc.last.col = 0

\* The characters of the C string in the first 15 bytes of a name field that
\* are alphanumeric or one of '.', '_', '+', in their order.
Filtered(field) ==
  LET cut == SubSeq(field, 1, IF Len(field) < 15 THEN Len(field) ELSE 15)
      str == SubSeq(cut, 1, Nul(cut) - 1)
  IN  SelectSeq(str, LAMBDA c : c \in (48..57) \cup (65..90) \cup (97..122) \cup {46, 95, 43})

\* C38: strip leaves exactly the characters of its input that are
\* alphanumeric or one of '.', '_', '+', in their order, and stripping twice
\* is stripping once; the name batch() opens for writing is not empty, has at
\* most 15 characters and no '/'; a header whose name strips to the empty
\* string returns failure with no file opened for it.
C38_StrippedNames ==
  (rcv.unit = "strip" /\ rcv.pc # "header")
    => /\ rcv.fname = Filtered(rcv.field)
       /\ strip(rcv.fname) = rcv.fname
       /\ \A name \in rcv.opened :
            /\ name = rcv.fname
            /\ Len(name) \in 1..15
            /\ \A k \in 1..Len(name) : name[k] # 47
       /\ rcv.pc = "exit1" <=> Filtered(rcv.field) = << >>
       /\ rcv.pc = "exit1" => rcv.opened = {}
       /\ rcv.pc = "body" => rcv.opened # {}

\* C38: the header named "../../etc/passwd", and the file opened for writing
\* is "....etcpassw".
C38_Witness ==
  /\ rcv.unit = "strip" /\ rcv.pc = "body"
  /\ rcv.field = << 46, 46, 47, 46, 46, 47, 101, 116, 99, 47, 112, 97, 115, 115, 119, 100 >>
  /\ rcv.opened = { << 46, 46, 46, 46, 101, 116, 99, 112, 97, 115, 115, 119 >> }

\* A header named "/" followed by a byte above 127 returned failure, nothing
\* opened.
NothingLeftOfTheName ==
  /\ rcv.unit = "strip" /\ rcv.pc = "exit1"
  /\ rcv.field = << 47, 200 >>
  /\ rcv.opened = {}

====
